---- MODULE Spec2Model ----
(***************************************************************************)
(* Time alignment of a reference route ("pattern") against recordings,     *)
(* after src/tracks-preprocess/src/main/py/preprocess_v2.py.               *)
(*                                                                         *)
(* Numbers.  Python floats are modelled by exact rationals <<num, den>>    *)
(* with den > 0 and gcd(num, den) = 1.  The Python value None is the empty *)
(* tuple.  Rounding error of the floating point unit is outside the model. *)
(***************************************************************************)
EXTENDS Integers, Sequences, FiniteSets, TLC

None == <<>>

Abs(a) == IF a < 0 THEN -a ELSE a

RECURSIVE Gcd(_, _)
Gcd(a, b) == IF b = 0 THEN a ELSE Gcd(b, a % b)

Norm(a, b) ==
    LET g == Gcd(Abs(a), Abs(b))
        s == IF b < 0 THEN -1 ELSE 1
    IN  <<(s * a) \div g, (s * b) \div g>>

Q(a) == <<a, 1>>

\* sums and products cancel common factors before they multiply
QAdd(p, q) ==
    LET g == Gcd(p[2], q[2])
    IN  Norm(p[1] * (q[2] \div g) + q[1] * (p[2] \div g), (p[2] \div g) * q[2])
QNeg(p) == <<-p[1], p[2]>>
QSub(p, q) == QAdd(p, QNeg(q))
QMul(p, q) ==
    LET g1 == Gcd(Abs(p[1]), q[2])
        g2 == Gcd(Abs(q[1]), p[2])
    IN  <<(p[1] \div g1) * (q[1] \div g2), (p[2] \div g2) * (q[2] \div g1)>>
QInv(q) == IF q[1] < 0 THEN <<-q[2], -q[1]>> ELSE <<q[2], q[1]>>
QDiv(p, q) == QMul(p, QInv(q))
QLe(p, q) ==
    LET g == Gcd(p[2], q[2])
    IN  p[1] * (q[2] \div g) <= q[1] * (p[2] \div g)
QLt(p, q) ==
    LET g == Gcd(p[2], q[2])
    IN  p[1] * (q[2] \div g) < q[1] * (p[2] \div g)
QMax(p, q) == IF QLt(p, q) THEN q ELSE p
QMin(p, q) == IF QLt(q, p) THEN q ELSE p

RECURSIVE SeqsUpTo(_, _)
SeqsUpTo(S, n) ==
    IF n = 0 THEN {<<>>}
    ELSE LET R == SeqsUpTo(S, n - 1)
         IN  R \cup {Append(r, x) : r \in {q \in R : Len(q) = n - 1}, x \in S}

Range(f) == {f[k] : k \in DOMAIN f}

\* ------------------------------------------------------------------------
\* Bounds of the model
\* ------------------------------------------------------------------------
MaxN == 3          \* longest input of isotonic_increasing
MaxRoute == 4      \* most points of a pattern
MaxRecs == 2       \* most recording files of a pasada
MaxCurve == 3      \* most points of a curve given to eval_t_of_s
MaxEst == 3        \* most recordings fused at one vertex
MaxSamples == 3    \* most projection samples given to weighted_mask
MaxBatch == 3      \* most entries of data/raw
MaxPts == 3        \* most points of a track given to resample_1hz
MaxFixes == 3      \* most points of a recording given to project_points_to_pattern

\* ------------------------------------------------------------------------
\* State
\* ------------------------------------------------------------------------
VARIABLES
    \* process_pasada
    pc,                \* position inside process_pasada
    group,             \* the pasada directory: [pattern, recs], files in name order
    trp_pts,           \* points of the pattern file
    geom,              \* result of build_pattern_geometry (S is S_pp)
    resampled_tracks,  \* recordings resampled to 1 Hz
    mappings,          \* per recording [s_sorted, t_hat]
    t_epoch_pp,        \* per pattern vertex: fused time or None
    t_vals,            \* t_epoch_pp with the undefined entries replaced
    t_hat_final,       \* result of the last isotonic pass
    resampled_gpx,     \* the *_resampled.gpx files written so far
    aligned_gpx,       \* content of *_pattern_aligned.gpx, None while not written
    \* eval_t_of_s on its own
    ev_pc,      \* "call" before, "done" after the call
    ev_s,       \* its argument s_sorted
    ev_t,       \* its argument t_hat
    ev_q,       \* its argument s_query
    ev_r,       \* its result
    \* the fusion at one vertex on its own
    med_pc,     \* "call" before, "done" after
    med_est,    \* per recording: its estimate at the vertex, or None
    med_r,      \* the fused time, or None
    \* isotonic_increasing on its own
    iso_pc,     \* position inside isotonic_increasing
    y,          \* its argument y
    w,          \* its argument w (None: the default)
    n_done,     \* number of elements the for loop has pushed
    blocks,     \* the block stack, bottom first: <<w_sum, y_sum, count>>
    y_hat,      \* its result
    \* weighted_mask followed by fit_monotone_t_of_s on their own
    cv_pc,      \* "mask", then "fit", then "done"
    cv_samples, \* projection samples [s, t, d2]
    cv_max,     \* the argument max_dist
    cv_masked,  \* result of weighted_mask: samples [s, t, w]
    cv_fit,     \* result of fit_monotone_t_of_s
    \* project_points_to_pattern on its own, one recording point at a time
    pj_pc,      \* "enter", "loop", "done"
    pj_pts,     \* its argument resampled_pts
    pj_g,       \* the pattern geometry
    pj_j,       \* the search cursor j
    pj_k,       \* number of recording points handled
    pj_out,     \* the samples appended so far
    \* resample_1hz on its own
    rs_pc,      \* "call" before, "done" after
    rs_in,      \* its argument points
    rs_out,     \* its result
    \* build_pattern_geometry on its own
    gm_pc,      \* "call" before, "done" after
    gm_pts,     \* its argument trp_pts
    gm_g,       \* its result
    \* main
    mn_pc,      \* "list", "loop", "done"
    mn_listing, \* os.listdir(RAW_DIR), in the order the system gives
    mn_pasadas, \* the sorted directories
    mn_i,       \* number of directories handled
    mn_out,     \* per directory handled: [dir, resampled, aligned]
    \* pass2_generate_csvs
    ds_pc,      \* "group", "rec", "window", "manifest", "done"
    ds_stats,   \* its argument stats: [mean, std], each [dx, dy, dz]
    ds_pasadas, \* the sorted directories of data/preprocessed
    ds_gi,      \* number of directories handled
    ds_ri,      \* number of recordings of the directory handled
    ds_k,       \* number of windows of the recording written
    ds_cur,     \* the normalised deltas and times of the recording
    ds_files,   \* the files under data/input: path -> content
    ds_manifest \* the rows appended to manifest

pas_vars == <<pc, group, trp_pts, geom, resampled_tracks, mappings, t_epoch_pp,
              t_vals, t_hat_final, resampled_gpx, aligned_gpx>>
iso_vars == <<iso_pc, y, w, n_done, blocks, y_hat>>
ev_vars == <<ev_pc, ev_s, ev_t, ev_q, ev_r>>
med_vars == <<med_pc, med_est, med_r>>
cv_vars == <<cv_pc, cv_samples, cv_max, cv_masked, cv_fit>>
pj_vars == <<pj_pc, pj_pts, pj_g, pj_j, pj_k, pj_out>>
rs_vars == <<rs_pc, rs_in, rs_out>>
gm_vars == <<gm_pc, gm_pts, gm_g>>
mn_vars == <<mn_pc, mn_listing, mn_pasadas, mn_i, mn_out>>
ds_vars == <<ds_pc, ds_stats, ds_pasadas, ds_gi, ds_ri, ds_k, ds_cur, ds_files,
             ds_manifest>>
fn_vars == <<cv_vars, pj_vars, rs_vars, gm_vars, mn_vars, ds_vars>>
vars == <<pas_vars, iso_vars, ev_vars, med_vars, fn_vars>>

\* the parts of the state a specification does not use stay as they are here
PasIdle ==
    /\ pc = "idle"
    /\ group = None
    /\ trp_pts = None
    /\ geom = None
    /\ resampled_tracks = <<>>
    /\ mappings = <<>>
    /\ t_epoch_pp = <<>>
    /\ t_vals = <<>>
    /\ t_hat_final = <<>>
    /\ resampled_gpx = <<>>
    /\ aligned_gpx = None

IsoIdle ==
    /\ iso_pc = "idle"
    /\ y = <<>>
    /\ w = None
    /\ n_done = 0
    /\ blocks = <<>>
    /\ y_hat = None

EvIdle ==
    /\ ev_pc = "idle"
    /\ ev_s = <<>>
    /\ ev_t = <<>>
    /\ ev_q = Q(0)
    /\ ev_r = None

MedIdle ==
    /\ med_pc = "idle"
    /\ med_est = <<>>
    /\ med_r = None

CvIdle ==
    /\ cv_pc = "idle"
    /\ cv_samples = <<>>
    /\ cv_max = 0
    /\ cv_masked = <<>>
    /\ cv_fit = None

PjIdle ==
    /\ pj_pc = "idle"
    /\ pj_pts = <<>>
    /\ pj_g = None
    /\ pj_j = 0
    /\ pj_k = 0
    /\ pj_out = <<>>

RsIdle ==
    /\ rs_pc = "idle"
    /\ rs_in = <<>>
    /\ rs_out = <<>>

GmIdle ==
    /\ gm_pc = "idle"
    /\ gm_pts = <<>>
    /\ gm_g = None

MnIdle ==
    /\ mn_pc = "idle"
    /\ mn_listing = <<>>
    /\ mn_pasadas = <<>>
    /\ mn_i = 0
    /\ mn_out = <<>>

DsIdle ==
    /\ ds_pc = "idle"
    /\ ds_stats = None
    /\ ds_pasadas = <<>>
    /\ ds_gi = 0
    /\ ds_ri = 0
    /\ ds_k = 0
    /\ ds_cur = None
    /\ ds_files = <<>>
    /\ ds_manifest = <<>>

FnIdle == CvIdle /\ PjIdle /\ RsIdle /\ GmIdle /\ MnIdle /\ DsIdle


\* ------------------------------------------------------------------------
\* isotonic_increasing (pool adjacent violators on a block stack)
\* ------------------------------------------------------------------------
UnitWeights(n) == [k \in 1..n |-> Q(1)]

\* (variant: the violation test repeated at most once, an `if` for the `while`)
MergeOnce(bs) ==
    IF Len(bs) < 2 THEN bs
    ELSE LET b2 == bs[Len(bs)]
             b1 == bs[Len(bs) - 1]
         IN  IF QLe(QDiv(b1[2], b1[1]), QDiv(b2[2], b2[1])) THEN bs
             ELSE Append(SubSeq(bs, 1, Len(bs) - 2),
                         <<QAdd(b1[1], b2[1]), QAdd(b1[2], b2[2]), b1[3] + b2[3]>>)

\* (variant: the merged block keeps the count of the upper block only)
RECURSIVE MergeDropCount(_)
MergeDropCount(bs) ==
    IF Len(bs) < 2 THEN bs
    ELSE LET b2 == bs[Len(bs)]
             b1 == bs[Len(bs) - 1]
         IN  IF QLe(QDiv(b1[2], b1[1]), QDiv(b2[2], b2[1])) THEN bs
             ELSE MergeDropCount(
                     Append(SubSeq(bs, 1, Len(bs) - 2),
                            <<QAdd(b1[1], b2[1]), QAdd(b1[2], b2[2]), b2[3]>>))

\* the while loop of lines 136-144: merge the two top blocks while the lower
\* one has the larger mean
RECURSIVE MergeViolators(_)
MergeViolators(bs) ==
    IF Len(bs) < 2 THEN bs
    ELSE LET b2 == bs[Len(bs)]
             b1 == bs[Len(bs) - 1]
         IN  IF QLe(QDiv(b1[2], b1[1]), QDiv(b2[2], b2[1])) THEN bs
             ELSE MergeViolators(
                     Append(SubSeq(bs, 1, Len(bs) - 2),
                            <<QAdd(b1[1], b2[1]), QAdd(b1[2], b2[2]), b1[3] + b2[3]>>))

\* (variant: the pushed block carries y[i] where the code stores w[i]*y[i])
PushBlockUnweighted(bs, wi, yi) == MergeViolators(Append(bs, <<wi, yi, 1>>))

\* one iteration of the for loop: push a unit block, then merge
PushBlock(bs, wi, yi) == MergeViolators(Append(bs, <<wi, QMul(wi, yi), 1>>))

RECURSIVE PavBlocks(_, _, _)
PavBlocks(ys, ws, k) ==
    IF k = 0 THEN <<>>
    ELSE PushBlock(PavBlocks(ys, ws, k - 1), ws[k], ys[k])

\* the expansion of lines 146-149
RECURSIVE ExpandBlocks(_)
ExpandBlocks(bs) ==
    IF bs = <<>> THEN <<>>
    ELSE LET b == bs[Len(bs)]
         IN  ExpandBlocks(SubSeq(bs, 1, Len(bs) - 1))
               \o [k \in 1..b[3] |-> QDiv(b[2], b[1])]

isotonic_increasing(ys, ws) ==
    IF Len(ys) = 0 THEN <<>>
    ELSE LET w1 == IF ws = None THEN UnitWeights(Len(ys)) ELSE ws
         IN  ExpandBlocks(PavBlocks(ys, w1, Len(ys)))

\* ------------------------------------------------------------------------
\* Basic geometry
\*
\* Angles are measured in the unit that subtends one metre on the Earth's
\* surface, so that deg2rad(a) * R_EARTH is the number a itself.  All routes
\* of the model start on the equator, where cos(lat0) = 1.
\* Indices are 0-based as in the source; At reads a sequence that way.
\* ------------------------------------------------------------------------
At(q, k) == q[k + 1]

\* math.cos(deg2rad(lat0)) for an origin on the equator
CosLat(lat0) == Q(1)

to_xy(lat0, lon0, lat, lon) ==
    <<QMul(QSub(lon, lon0), CosLat(lat0)), QSub(lat, lat0)>>

\* square of math.hypot(dx, dy)
Hypot2(dx, dy) == QAdd(QMul(dx, dx), QMul(dy, dy))

ISqrt(n) == CHOOSE r \in 0..n : r * r = n

\* (variant: the sum of the two differences, signs kept)
HypotSigned(dx, dy) == QAdd(dx, dy)

\* math.hypot(dx, dy) where it is rational
Hypot(dx, dy) ==
    IF dy = Q(0) THEN <<Abs(dx[1]), dx[2]>>
    ELSE IF dx = Q(0) THEN <<Abs(dy[1]), dy[2]>>
    ELSE LET h == Hypot2(dx, dy) IN <<ISqrt(h[1]), ISqrt(h[2])>>

\* (variant: u is never clamped to [0, 1])
proj_on_segment_unclamped(px, py, ax, ay, bx, by, clamp) ==
    LET vx == QSub(bx, ax)
        vy == QSub(by, ay)
        wx == QSub(px, ax)
        wy == QSub(py, ay)
        vv == QAdd(QMul(vx, vx), QMul(vy, vy))
    IN  IF vv = Q(0)
          THEN <<Q(0), ax, ay, Hypot2(QSub(px, ax), QSub(py, ay))>>
          ELSE LET u == QDiv(QAdd(QMul(wx, vx), QMul(wy, vy)), vv)
                   qx == QAdd(ax, QMul(u, vx))
                   qy == QAdd(ay, QMul(u, vy))
               IN  <<u, qx, qy, Hypot2(QSub(px, qx), QSub(py, qy))>>

\* returns <<u, qx, qy, dist^2>>: the residual distance is carried as its
\* square, which orders and thresholds exactly as the distance does
proj_on_segment(px, py, ax, ay, bx, by, clamp) ==
    LET vx == QSub(bx, ax)
        vy == QSub(by, ay)
        wx == QSub(px, ax)
        wy == QSub(py, ay)
        vv == QAdd(QMul(vx, vx), QMul(vy, vy))
    IN  IF vv = Q(0)
          THEN <<Q(0), ax, ay, Hypot2(QSub(px, ax), QSub(py, ay))>>
          ELSE LET u0 == QDiv(QAdd(QMul(wx, vx), QMul(wy, vy)), vv)
                   u == IF clamp THEN QMax(Q(0), QMin(Q(1), u0)) ELSE u0
                   qx == QAdd(ax, QMul(u, vx))
                   qy == QAdd(ay, QMul(u, vy))
               IN  <<u, qx, qy, Hypot2(QSub(px, qx), QSub(py, qy))>>

\* A loop over a long range is evaluated as the loop over its first half
\* followed by the loop over its second half: the passes and their order
\* are the same, the evaluation nests less deeply.
Chunk == 16

\* the loop of lines 47-48 up to ls[i1]; s is the list so far, and the next
\* length to add is ls[Len(s)]
RECURSIVE PrefixFrom(_, _, _)
PrefixFrom(ls, i1, s) ==
    IF Len(s) > i1 THEN s
    ELSE IF i1 - Len(s) >= Chunk
      THEN PrefixFrom(ls, i1, PrefixFrom(ls, (Len(s) + i1) \div 2, s))
    ELSE PrefixFrom(ls, i1, Append(s, QAdd(s[Len(s)], ls[Len(s)])))

PrefixSums(ls) == PrefixFrom(ls, Len(ls), <<Q(0)>>)

\* returns <<seglen, s>>
cumdist(xs, ys) ==
    LET seglen == [k \in 1..(Len(xs) - 1) |->
                      Hypot(QSub(xs[k + 1], xs[k]), QSub(ys[k + 1], ys[k]))]
    IN  <<seglen, PrefixSums(seglen)>>

build_pattern_geometry(pts) ==
    LET lat0 == pts[1].lat
        lon0 == pts[1].lon
        xy == [k \in 1..Len(pts) |-> to_xy(lat0, lon0, pts[k].lat, pts[k].lon)]
        px == [k \in 1..Len(pts) |-> xy[k][1]]
        py == [k \in 1..Len(pts) |-> xy[k][2]]
        cd == cumdist(px, py)
    IN  [lat0 |-> lat0, lon0 |-> lon0, X |-> px, Y |-> py,
         seglen |-> cd[1], S |-> cd[2]]

\* the loop of lines 164-167 over the vertices k..k1; best = <<best_i, best_d>>
RECURSIVE ClosestFrom(_, _, _, _, _, _, _)
ClosestFrom(px, py, X, Y, k, k1, best) ==
    IF k > k1 THEN best
    ELSE IF k1 - k >= Chunk
      THEN LET mid == (k + k1) \div 2
           IN  ClosestFrom(px, py, X, Y, mid + 1, k1,
                           ClosestFrom(px, py, X, Y, k, mid, best))
    ELSE LET d == QAdd(QMul(QSub(At(X, k), px), QSub(At(X, k), px)),
                       QMul(QSub(At(Y, k), py), QSub(At(Y, k), py)))
         IN  IF best[2] = None \/ QLt(d, best[2])
               THEN ClosestFrom(px, py, X, Y, k + 1, k1, <<k, d>>)
               ELSE ClosestFrom(px, py, X, Y, k + 1, k1, best)

\* best_d = None stands for float("inf")
closest_vertex_index(px, py, X, Y) ==
    ClosestFrom(px, py, X, Y, 0, Len(X) - 1, <<0, None>>)[1]

\* ------------------------------------------------------------------------
\* Time.  A datetime is <<n>>, n its number of microseconds since the epoch.
\* ------------------------------------------------------------------------
Micro == 1000000

\* datetime.timestamp(): seconds as a float
timestamp(dt) == Norm(dt[1], Micro)

\* (variant: the microseconds are kept)
keep_microsecond(dt) == dt

\* datetime.replace(microsecond=0)
replace_microsecond_0(dt) == <<dt[1] - (dt[1] % Micro)>>

\* (a - b).total_seconds()
total_seconds(a, b) == Norm(a[1] - b[1], Micro)

\* dt + timedelta(seconds=1)
plus_1s(dt) == <<dt[1] + Micro>>

DtLt(a, b) == a[1] < b[1]
DtLe(a, b) == a[1] <= b[1]

\* datetime.fromtimestamp(te, tz=utc): te rounded half-even to the microsecond
fromtimestamp(te) ==
    LET whole == te[1] \div te[2]
        r == te[1] % te[2]
        fl == (r * Micro) \div te[2]
        rem == (r * Micro) % te[2]
        up == \/ 2 * rem > te[2]
              \/ (2 * rem = te[2] /\ fl % 2 = 1)
    IN  <<whole * Micro + fl + (IF up THEN 1 ELSE 0)>>

\* ------------------------------------------------------------------------
\* Resampling to 1 Hz
\* ------------------------------------------------------------------------
Clamp01(a) == QMax(Q(0), QMin(Q(1), a))

interpolate_point(pA, pB, t_target) ==
    IF pA.time = None \/ pB.time = None
      THEN [lat |-> pA.lat, lon |-> pA.lon, ele |-> pA.ele, time |-> t_target]
    ELSE IF QLe(total_seconds(pB.time, pA.time), Q(0))
      THEN [lat |-> pA.lat, lon |-> pA.lon, ele |-> pA.ele, time |-> t_target]
    ELSE LET total == total_seconds(pB.time, pA.time)
             a == Clamp01(QDiv(total_seconds(t_target, pA.time), total))
         IN  [lat |-> QAdd(pA.lat, QMul(a, QSub(pB.lat, pA.lat))),
              lon |-> QAdd(pA.lon, QMul(a, QSub(pB.lon, pA.lon))),
              ele |-> IF pA.ele # None /\ pB.ele # None
                        THEN QAdd(pA.ele, QMul(a, QSub(pB.ele, pA.ele)))
                        ELSE None,
              time |-> t_target]

\* [p for p in pts if p["time"] is not None]
RECURSIVE Timed(_)
Timed(pts) ==
    IF pts = <<>> THEN <<>>
    ELSE LET r == Timed(SubSeq(pts, 1, Len(pts) - 1))
         IN  IF pts[Len(pts)].time # None THEN Append(r, pts[Len(pts)]) ELSE r

\* sorted(pts, key=time): stable insertion
RECURSIVE SortByTime(_)
SortByTime(pts) ==
    IF pts = <<>> THEN <<>>
    ELSE LET r == SortByTime(SubSeq(pts, 1, Len(pts) - 1))
             p == pts[Len(pts)]
             k == Cardinality({m \in 1..Len(r) : DtLe(r[m].time, p.time)})
         IN  SubSeq(r, 1, k) \o <<p>> \o SubSeq(r, k + 1, Len(r))

\* the inner while of line 109
RECURSIVE Advance(_, _, _)
Advance(pts, i, t) ==
    IF i + 1 < Len(pts) /\ DtLt(At(pts, i + 1).time, t) THEN Advance(pts, i + 1, t) ELSE i

\* the outer while of lines 108-116
RECURSIVE ResampleFrom(_, _, _, _, _)
ResampleFrom(pts, t, end, i0, res) ==
    IF ~DtLe(t, end) THEN res
    ELSE LET i == Advance(pts, i0, t)
             q == IF i + 1 < Len(pts) /\ DtLe(At(pts, i).time, t) /\ DtLe(t, At(pts, i + 1).time)
                    THEN interpolate_point(At(pts, i), At(pts, i + 1), t)
                    ELSE LET nearest == IF DtLt(t, pts[1].time) THEN pts[1] ELSE pts[Len(pts)]
                         IN  [lat |-> nearest.lat, lon |-> nearest.lon,
                              ele |-> nearest.ele, time |-> t]
         IN  ResampleFrom(pts, plus_1s(t), end, i, Append(res, q))

resample_1hz(points) ==
    LET pts0 == Timed(points)
    IN  IF Len(pts0) < 2 THEN pts0
        ELSE LET pts == SortByTime(pts0)
             IN  ResampleFrom(pts, replace_microsecond_0(pts[1].time),
                              replace_microsecond_0(pts[Len(pts)].time), 0, <<>>)

\* ------------------------------------------------------------------------
\* Progressive projection onto the pattern
\* ------------------------------------------------------------------------
SEARCH_BACK == 20
SEARCH_AHEAD == 80

Max(a, b) == IF a > b THEN a ELSE b
Min(a, b) == IF a < b THEN a ELSE b

\* (variant: of two segments at the same distance the later one wins)
RECURSIVE ScanWindowLastWins(_, _, _, _, _, _, _)
ScanWindowLastWins(px, py, X, Y, i, i1, best) ==
    IF i > i1 THEN best
    ELSE IF i1 - i >= Chunk
      THEN LET mid == (i + i1) \div 2
           IN  ScanWindowLastWins(px, py, X, Y, mid + 1, i1,
                  ScanWindowLastWins(px, py, X, Y, i, mid, best))
    ELSE LET pr == proj_on_segment(px, py, At(X, i), At(Y, i),
                                   At(X, i + 1), At(Y, i + 1), TRUE)
         IN  IF best[1] = None \/ QLe(pr[4], best[1])
               THEN ScanWindowLastWins(px, py, X, Y, i + 1, i1, <<pr[4], i, pr[1]>>)
               ELSE ScanWindowLastWins(px, py, X, Y, i + 1, i1, best)

\* the scan of lines 192-197; best = <<dist^2, seg_idx, u>>, None for inf
RECURSIVE ScanWindow(_, _, _, _, _, _, _)
ScanWindow(px, py, X, Y, i, i1, best) ==
    IF i > i1 THEN best
    ELSE IF i1 - i >= Chunk
      THEN LET mid == (i + i1) \div 2
           IN  ScanWindow(px, py, X, Y, mid + 1, i1,
                  ScanWindow(px, py, X, Y, i, mid, best))
    ELSE LET pr == proj_on_segment(px, py, At(X, i), At(Y, i),
                                   At(X, i + 1), At(Y, i + 1), TRUE)
         IN  IF best[1] = None \/ QLt(pr[4], best[1])
               THEN ScanWindow(px, py, X, Y, i + 1, i1, <<pr[4], i, pr[1]>>)
               ELSE ScanWindow(px, py, X, Y, i + 1, i1, best)

\* one pass of the loop of lines 186-202: the new cursor and the sample
ProjectPoint(p, g, j) ==
    LET nseg == Len(g.seglen)
        xy == to_xy(g.lat0, g.lon0, p.lat, p.lon)
        i0 == Max(0, j - SEARCH_BACK)
        i1 == Min(nseg - 1, j + SEARCH_AHEAD)
        best == ScanWindow(xy[1], xy[2], g.X, g.Y, i0, i1, <<None, j, Q(0)>>)
        s == QAdd(At(g.S, best[2]), QMul(best[3], At(g.seglen, best[2])))
    IN  [j |-> best[2], sample |-> [s |-> s, t |-> timestamp(p.time), d2 |-> best[1]]]

\* the loop of lines 186-202 from point k on; returns the samples <<s, t, d^2>>
RECURSIVE ProjectFrom(_, _, _, _, _)
ProjectFrom(pts, g, k, j, acc) ==
    IF k > Len(pts) THEN acc
    ELSE LET p == pts[k]
             nseg == Len(g.seglen)
             xy == to_xy(g.lat0, g.lon0, p.lat, p.lon)
             i0 == Max(0, j - SEARCH_BACK)
             i1 == Min(nseg - 1, j + SEARCH_AHEAD)
             best == ScanWindow(xy[1], xy[2], g.X, g.Y, i0, i1, <<None, j, Q(0)>>)
             s == QAdd(At(g.S, best[2]), QMul(best[3], At(g.seglen, best[2])))
         IN  ProjectFrom(pts, g, k + 1, best[2],
                         Append(acc, [s |-> s, t |-> timestamp(p.time), d2 |-> best[1]]))

\* g is the geometry (lat0, lon0, X, Y, seglen, S); the three result lists are
\* kept as one list of samples
project_points_to_pattern(resampled_pts, g) ==
    IF Len(g.X) < 2 THEN <<>>
    ELSE LET nseg == Len(g.seglen)
             p0 == resampled_pts[1]
             p0xy == to_xy(g.lat0, g.lon0, p0.lat, p0.lon)
             j == Max(0, Min(nseg - 1,
                             closest_vertex_index(p0xy[1], p0xy[2], g.X, g.Y) - 1))
         IN  ProjectFrom(resampled_pts, g, 1, j, <<>>)

MAX_PROJ_DIST == 30

\* (variant: a sample at exactly max_dist is dropped too, `d < max_dist`)
RECURSIVE weighted_mask_strict(_, _)
weighted_mask_strict(samples, max_dist) ==
    IF samples = <<>> THEN <<>>
    ELSE LET r == weighted_mask_strict(SubSeq(samples, 1, Len(samples) - 1), max_dist)
             m == samples[Len(samples)]
         IN  IF QLt(m.d2, Q(max_dist * max_dist))
               THEN Append(r, [s |-> m.s, t |-> m.t,
                               w |-> QDiv(Q(1), QAdd(Q(1), QDiv(m.d2, Q(100))))])
               ELSE r

\* d <= max_dist is d^2 <= max_dist^2, and (d/10.0)**2 is d^2/100
RECURSIVE weighted_mask(_, _)
weighted_mask(samples, max_dist) ==
    IF samples = <<>> THEN <<>>
    ELSE LET r == weighted_mask(SubSeq(samples, 1, Len(samples) - 1), max_dist)
             m == samples[Len(samples)]
         IN  IF QLe(m.d2, Q(max_dist * max_dist))
               THEN Append(r, [s |-> m.s, t |-> m.t,
                               w |-> QDiv(Q(1), QAdd(Q(1), QDiv(m.d2, Q(100))))])
               ELSE r

\* (variant: a sort that puts the later of two samples with equal s first)
RECURSIVE SortBySLastFirst(_)
SortBySLastFirst(ms) ==
    IF ms = <<>> THEN <<>>
    ELSE LET r == SortBySLastFirst(SubSeq(ms, 1, Len(ms) - 1))
             m == ms[Len(ms)]
             k == Cardinality({n \in 1..Len(r) : QLt(r[n].s, m.s)})
         IN  SubSeq(r, 1, k) \o <<m>> \o SubSeq(r, k + 1, Len(r))

\* sorted(range(n), key=s): stable insertion
RECURSIVE SortByS(_)
SortByS(ms) ==
    IF ms = <<>> THEN <<>>
    ELSE LET r == SortByS(SubSeq(ms, 1, Len(ms) - 1))
             m == ms[Len(ms)]
             k == Cardinality({n \in 1..Len(r) : QLe(r[n].s, m.s)})
         IN  SubSeq(r, 1, k) \o <<m>> \o SubSeq(r, k + 1, Len(r))

\* returns [s_sorted, t_hat]
fit_monotone_t_of_s(ms) ==
    IF ms = <<>> THEN [s_sorted |-> <<>>, t_hat |-> <<>>]
    ELSE LET srt == SortByS(ms)
         IN  [s_sorted |-> [k \in 1..Len(srt) |-> srt[k].s],
              t_hat |-> isotonic_increasing([k \in 1..Len(srt) |-> srt[k].t],
                                            [k \in 1..Len(srt) |-> srt[k].w])]

\* bisect.bisect_left(a, x)
RECURSIVE Bisect(_, _, _, _)
Bisect(a, x, lo, hi) ==
    IF lo < hi
      THEN LET mid == (lo + hi) \div 2
           IN  IF QLt(At(a, mid), x) THEN Bisect(a, x, mid + 1, hi)
                                     ELSE Bisect(a, x, lo, mid)
      ELSE lo

bisect_left(a, x) == Bisect(a, x, 0, Len(a))

\* (variant: without the guard of lines 232-233 an empty curve gives 0.0)
eval_t_of_s_unguarded(s_sorted, t_hat, s_query) ==
    IF s_sorted = <<>> THEN Q(0)
    ELSE LET i == bisect_left(s_sorted, s_query)
         IN  IF i = 0 THEN None
             ELSE IF i = Len(s_sorted) THEN None
             ELSE LET s0 == At(s_sorted, i - 1)
                      s1 == At(s_sorted, i)
                      t0 == At(t_hat, i - 1)
                      t1 == At(t_hat, i)
                  IN  IF s1 = s0 THEN t0
                      ELSE QAdd(t0, QMul(QDiv(QSub(s_query, s0), QSub(s1, s0)),
                                         QSub(t1, t0)))

eval_t_of_s(s_sorted, t_hat, s_query) ==
    IF s_sorted = <<>> THEN None
    ELSE LET i == bisect_left(s_sorted, s_query)
         IN  IF i = 0 THEN None
             ELSE IF i = Len(s_sorted) THEN None
             ELSE LET s0 == At(s_sorted, i - 1)
                      s1 == At(s_sorted, i)
                      t0 == At(t_hat, i - 1)
                      t1 == At(t_hat, i)
                  IN  IF s1 = s0 THEN t0
                      ELSE QAdd(t0, QMul(QDiv(QSub(s_query, s0), QSub(s1, s0)),
                                         QSub(t1, t0)))

\* sorted(vals)
RECURSIVE SortQ(_)
SortQ(vals) ==
    IF vals = <<>> THEN <<>>
    ELSE LET r == SortQ(SubSeq(vals, 1, Len(vals) - 1))
             v == vals[Len(vals)]
             k == Cardinality({n \in 1..Len(r) : QLe(r[n], v)})
         IN  SubSeq(r, 1, k) \o <<v>> \o SubSeq(r, k + 1, Len(r))

\* (variant: the upper middle value for an even count too)
median_upper(vals0) ==
    LET vals == SortQ(vals0)
        n == Len(vals)
    IN  IF n = 0 THEN None ELSE At(vals, n \div 2)

median(vals0) ==
    LET vals == SortQ(vals0)
        n == Len(vals)
    IN  IF n = 0 THEN None
        ELSE IF n % 2 = 1 THEN At(vals, n \div 2)
        ELSE QMul(<<1, 2>>, QAdd(At(vals, n \div 2 - 1), At(vals, n \div 2)))

\* ------------------------------------------------------------------------
\* process_pasada: fusion, gap filling, fallback
\* ------------------------------------------------------------------------
\* lines 323-329 for one vertex: the estimates of the recordings, in order
RECURSIVE Defined(_)
Defined(ests) ==
    IF ests = <<>> THEN <<>>
    ELSE LET r == Defined(SubSeq(ests, 1, Len(ests) - 1))
         IN  IF ests[Len(ests)] # None THEN Append(r, ests[Len(ests)]) ELSE r

Candidates(maps, s) ==
    Defined([k \in 1..Len(maps) |-> eval_t_of_s(maps[k].s_sorted, maps[k].t_hat, s)])

\* (variant: the estimate of the first recording that has one, not the median)
FuseFirstCandidate(maps, S_pp) ==
    [k \in 1..Len(S_pp) |->
        LET cand == Candidates(maps, S_pp[k])
        IN  IF cand = <<>> THEN None ELSE cand[1]]

Fuse(maps, S_pp) == [k \in 1..Len(S_pp) |-> median(Candidates(maps, S_pp[k]))]

\* the indices (0-based) of the defined entries, ascending
DefinedIdx(ts) == {k \in 0..(Len(ts) - 1) : At(ts, k) # None}

RECURSIVE SeqOfSet(_)
SeqOfSet(I) ==
    IF I = {} THEN <<>>
    ELSE LET m == CHOOSE a \in I : \A b \in I : b <= a
         IN  Append(SeqOfSet(I \ {m}), m)

\* (variant: the first pair of valid vertices is never used, `1 < j`)
InterpolateInnerFrom2(S_pp, ts) ==
    LET idx == SeqOfSet(DefinedIdx(ts))
        s_valid == [k \in 1..Len(idx) |-> At(S_pp, idx[k])]
        t_valid == [k \in 1..Len(idx) |-> At(ts, idx[k])]
    IN  [k \in 1..Len(ts) |->
            IF ts[k] # None THEN ts[k]
            ELSE LET j == bisect_left(s_valid, S_pp[k])
                 IN  IF 1 < j /\ j < Len(s_valid)
                       THEN LET s0 == At(s_valid, j - 1)
                                s1 == At(s_valid, j)
                                t0 == At(t_valid, j - 1)
                                t1 == At(t_valid, j)
                                a == IF s1 = s0 THEN Q(0)
                                     ELSE QDiv(QSub(S_pp[k], s0), QSub(s1, s0))
                            IN  QAdd(t0, QMul(a, QSub(t1, t0)))
                       ELSE None]

\* lines 339-346: undefined entries between valid ones, by arc length
InterpolateInner(S_pp, ts) ==
    LET idx == SeqOfSet(DefinedIdx(ts))
        s_valid == [k \in 1..Len(idx) |-> At(S_pp, idx[k])]
        t_valid == [k \in 1..Len(idx) |-> At(ts, idx[k])]
    IN  [k \in 1..Len(ts) |->
            IF ts[k] # None THEN ts[k]
            ELSE LET j == bisect_left(s_valid, S_pp[k])
                 IN  IF 0 < j /\ j < Len(s_valid)
                       THEN LET s0 == At(s_valid, j - 1)
                                s1 == At(s_valid, j)
                                t0 == At(t_valid, j - 1)
                                t1 == At(t_valid, j)
                                a == IF s1 = s0 THEN Q(0)
                                     ELSE QDiv(QSub(S_pp[k], s0), QSub(s1, s0))
                            IN  QAdd(t0, QMul(a, QSub(t1, t0)))
                       ELSE None]

\* (variant: the loop to the left stops before vertex 0)
ExtrapolateLeftNot0(S_pp, ts, first_defined, last_defined) ==
    IF first_defined + 1 <= last_defined
      THEN LET s0 == At(S_pp, first_defined)
               t0 == At(ts, first_defined)
               s1 == At(S_pp, first_defined + 1)
               t1 == At(ts, first_defined + 1)
           IN  IF s1 # s0 /\ t1 = None THEN [err |-> TRUE, t |-> ts]
               ELSE LET slope == IF s1 = s0 THEN Q(0)
                                 ELSE QDiv(QSub(t1, t0), QSub(s1, s0))
                    IN  [err |-> FALSE,
                         t |-> [k \in 1..Len(ts) |->
                                  IF k - 1 < first_defined /\ k - 1 > 0
                                    THEN QSub(t0, QMul(slope, QSub(s0, S_pp[k])))
                                    ELSE ts[k]]]
      ELSE [err |-> FALSE, t |-> ts]

\* lines 353-358; [err, t]: err when t1 - t0 is evaluated on None (TypeError)
ExtrapolateLeft(S_pp, ts, first_defined, last_defined) ==
    IF first_defined + 1 <= last_defined
      THEN LET s0 == At(S_pp, first_defined)
               t0 == At(ts, first_defined)
               s1 == At(S_pp, first_defined + 1)
               t1 == At(ts, first_defined + 1)
           IN  IF s1 # s0 /\ t1 = None THEN [err |-> TRUE, t |-> ts]
               ELSE LET slope == IF s1 = s0 THEN Q(0)
                                 ELSE QDiv(QSub(t1, t0), QSub(s1, s0))
                    IN  [err |-> FALSE,
                         t |-> [k \in 1..Len(ts) |->
                                  IF k - 1 < first_defined
                                    THEN QSub(t0, QMul(slope, QSub(s0, S_pp[k])))
                                    ELSE ts[k]]]
      ELSE [err |-> FALSE, t |-> ts]

\* (variant: the vertices after the last defined one take its time)
ExtrapolateRightFlat(S_pp, ts, last_defined) ==
    [err |-> FALSE,
     t |-> [k \in 1..Len(ts) |->
              IF k - 1 > last_defined THEN At(ts, last_defined) ELSE ts[k]]]

\* lines 360-365
ExtrapolateRight(S_pp, ts, last_defined) ==
    IF last_defined - 1 >= 0
      THEN LET s0 == At(S_pp, last_defined - 1)
               t0 == At(ts, last_defined - 1)
               s1 == At(S_pp, last_defined)
               t1 == At(ts, last_defined)
           IN  IF s1 # s0 /\ t0 = None THEN [err |-> TRUE, t |-> ts]
               ELSE LET slope == IF s1 = s0 THEN Q(0)
                                 ELSE QDiv(QSub(t1, t0), QSub(s1, s0))
                    IN  [err |-> FALSE,
                         t |-> [k \in 1..Len(ts) |->
                                  IF k - 1 > last_defined
                                    THEN QAdd(t1, QMul(slope, QSub(S_pp[k], s1)))
                                    ELSE ts[k]]]
      ELSE [err |-> FALSE, t |-> ts]

\* lines 334-365
FillGaps(S_pp, ts0) ==
    IF Cardinality(DefinedIdx(ts0)) >= 2
      THEN LET ts1 == InterpolateInner(S_pp, ts0)
               D == DefinedIdx(ts1)
           IN  IF D # {}
                 THEN LET first_defined == CHOOSE a \in D : \A b \in D : a <= b
                          last_defined == CHOOSE a \in D : \A b \in D : b <= a
                          L == ExtrapolateLeft(S_pp, ts1, first_defined, last_defined)
                      IN  IF L.err THEN L
                          ELSE ExtrapolateRight(S_pp, L.t, last_defined)
                 ELSE [err |-> FALSE, t |-> ts1]
      ELSE [err |-> FALSE, t |-> ts0]

\* (variant: every undefined entry becomes 0.0, whatever its neighbours)
FillNaNZero(tv, i) == [a \in 1..Len(tv) |-> IF tv[a] = None THEN Q(0) ELSE tv[a]]

\* lines 373-387 from index i on; None stands for NaN
RECURSIVE FillNaNFrom(_, _)
FillNaNFrom(tv, i) ==
    IF i >= Len(tv) THEN tv
    ELSE IF At(tv, i) # None THEN FillNaNFrom(tv, i + 1)
    ELSE LET before == {a \in 0..(i - 1) : At(tv, a) # None}
             after == {a \in (i + 1)..(Len(tv) - 1) : At(tv, a) # None}
             j == IF before = {} THEN -1
                  ELSE CHOOSE a \in before : \A b \in before : b <= a
             k == IF after = {} THEN Len(tv)
                  ELSE CHOOSE a \in after : \A b \in after : a <= b
             v == IF j >= 0 /\ k < Len(tv)
                    THEN QMul(<<1, 2>>, QAdd(At(tv, j), At(tv, k)))
                  ELSE IF j >= 0 THEN At(tv, j)
                  ELSE IF k < Len(tv) THEN At(tv, k)
                  ELSE Q(0)
         IN  FillNaNFrom([a \in 1..Len(tv) |-> IF a = i + 1 THEN v ELSE tv[a]], i + 1)

\* lines 368-387
FillNaN(ts) == IF \E k \in 1..Len(ts) : ts[k] = None THEN FillNaNFrom(ts, 0) ELSE ts

\* (variant: the fused, filled times are written without the last isotonic pass)
FinalPassSkipped(tv) == tv

\* line 389
FinalPass(tv) == isotonic_increasing(tv, UnitWeights(Len(tv)))

\* (variant: the elevation is not copied)
BuildAlignedNoEle(pts, te) ==
    [k \in 1..Min(Len(pts), Len(te)) |->
        [lat |-> pts[k].lat, lon |-> pts[k].lon, ele |-> None,
         time |-> fromtimestamp(te[k])]]

\* lines 391-396: zip(trp_pts, t_hat_final)
BuildAligned(pts, te) ==
    [k \in 1..Min(Len(pts), Len(te)) |->
        [lat |-> pts[k].lat, lon |-> pts[k].lon, ele |-> pts[k].ele,
         time |-> fromtimestamp(te[k])]]

\* ------------------------------------------------------------------------
\* Inputs of process_pasada
\* ------------------------------------------------------------------------
Pt(lon, lat, ele, time) == [lat |-> Q(lat), lon |-> Q(lon), ele |-> ele, time |-> time]

Sec(whole, micro) == <<whole * Micro + micro>>

\* Patterns: up to MaxRoute untimed points on the equator, running east, a
\* point possibly repeated; the origin is the first point, wherever it lies.
LonVals == {0, 10, 20, 30}

RECURSIVE EastwardSeqs(_)
EastwardSeqs(n) ==
    IF n = 0 THEN {<<>>}
    ELSE LET R == EastwardSeqs(n - 1)
         IN  R \cup {Append(r, x) : r \in {q \in R : Len(q) = n - 1},
                                    x \in LonVals}

EastwardOnly(R) == {r \in R : \A k \in 1..(Len(r) - 1) : r[k] <= r[k + 1]}

PatternPoint(lon) == Pt(lon, 0, IF lon = 0 THEN None ELSE Q(500 + lon), None)

Patterns ==
    {[k \in 1..Len(r) |-> PatternPoint(r[k])] : r \in EastwardOnly(EastwardSeqs(MaxRoute))}

\* Recording files, in file name order.
RecWest == <<Pt(0, 0, Q(7), Sec(8, 0)), Pt(10, 0, Q(8), Sec(9, 0))>>
RecEast == <<Pt(20, 0, None, Sec(5, 500000)), Pt(30, 0, None, Sec(7, 0))>>
RecFull == <<Pt(0, 0, Q(7), Sec(1, 0)), Pt(30, 0, None, Sec(4, 0))>>
RecDiag == <<Pt(0, 0, None, Sec(3, 0)), Pt(20, 20, None, Sec(5, 0))>>
RecFar == <<Pt(0, 40, None, Sec(1, 0)), Pt(30, 40, None, Sec(3, 0))>>
RecBack == <<Pt(30, 0, None, Sec(2, 0)), Pt(0, 0, None, Sec(5, 0))>>
RecShort == <<Pt(0, 0, None, Sec(1, 0)), Pt(10, 0, None, None)>>
RecOnVertices ==
    <<Pt(0, 0, None, Sec(100, 0)), Pt(10, 0, None, Sec(110, 0)),
      Pt(20, 0, None, Sec(120, 0))>>

Catalogue ==
    <<RecBack, RecDiag, RecEast, RecFar, RecFull, RecShort, RecWest>>

\* the recordings of a directory: files of the catalogue, in name order
RecLists ==
    {[k \in 1..Len(ix) |-> Catalogue[ix[k]]] :
        ix \in {SeqOfSet(I) : I \in {J \in SUBSET (1..Len(Catalogue)) :
                                        Cardinality(J) <= MaxRecs}}}

\* has_pattern = FALSE: the directory has no *_pattern.gpx
\* the scenario of a straight route with vertices at 0, 10, 20 m and one
\* recording on the vertices at t0, t0 + 10, t0 + 20
OnVerticesGroup ==
    [has_pattern |-> TRUE,
     pattern |-> <<PatternPoint(0), PatternPoint(10), PatternPoint(20)>>,
     recs |-> <<RecOnVertices>>]

Groups ==
    [has_pattern : {TRUE}, pattern : Patterns, recs : RecLists]
      \cup [has_pattern : {FALSE}, pattern : {<<>>}, recs : RecLists]
      \cup {OnVerticesGroup}

\* ------------------------------------------------------------------------
\* process_pasada, phase by phase
\* ------------------------------------------------------------------------
Init ==
    /\ FnIdle
    /\ IsoIdle
    /\ EvIdle
    /\ MedIdle
    /\ pc = "start"
    /\ group \in Groups
    /\ trp_pts = None
    /\ geom = None
    /\ resampled_tracks = <<>>
    /\ mappings = <<>>
    /\ t_epoch_pp = <<>>
    /\ t_vals = <<>>
    /\ t_hat_final = <<>>
    /\ resampled_gpx = <<>>
    /\ aligned_gpx = None

\* lines 255-258: the directory holds no gpx file at all
ReturnNoGpx ==
    /\ pc = "start"
    /\ ~group.has_pattern /\ group.recs = <<>>
    /\ pc' = "return_no_gpx"
    /\ UNCHANGED <<group, trp_pts, geom, resampled_tracks, mappings, t_epoch_pp,
                   t_vals, t_hat_final, resampled_gpx, aligned_gpx>>
    /\ UNCHANGED <<iso_vars, ev_vars, med_vars, fn_vars>>

\* lines 260-263
ReturnNoPattern ==
    /\ pc = "start"
    /\ ~(~group.has_pattern /\ group.recs = <<>>)
    /\ ~group.has_pattern
    /\ pc' = "return_no_pattern"
    /\ UNCHANGED <<group, trp_pts, geom, resampled_tracks, mappings, t_epoch_pp,
                   t_vals, t_hat_final, resampled_gpx, aligned_gpx>>
    /\ UNCHANGED <<iso_vars, ev_vars, med_vars, fn_vars>>

\* lines 265-272: the pattern is read and has fewer than 2 points
ReturnShortPattern ==
    /\ pc = "start"
    /\ group.has_pattern
    /\ Len(group.pattern) < 2
    /\ trp_pts' = group.pattern
    /\ pc' = "return_short_pattern"
    /\ UNCHANGED <<group, geom, resampled_tracks, mappings, t_epoch_pp,
                   t_vals, t_hat_final, resampled_gpx, aligned_gpx>>
    /\ UNCHANGED <<iso_vars, ev_vars, med_vars, fn_vars>>

\* lines 265-280
LoadPattern ==
    /\ pc = "start"
    /\ group.has_pattern
    /\ ~(Len(group.pattern) < 2)
    /\ trp_pts' = group.pattern
    /\ geom' = build_pattern_geometry(group.pattern)
    /\ pc' = "resample"
    /\ UNCHANGED <<group, resampled_tracks, mappings, t_epoch_pp,
                   t_vals, t_hat_final, resampled_gpx, aligned_gpx>>
    /\ UNCHANGED <<iso_vars, ev_vars, med_vars, fn_vars>>

\* (variant: a recording with a single timed point is kept)
RECURSIVE ResampleAllLoose(_)
ResampleAllLoose(recs) ==
    IF recs = <<>> THEN <<>>
    ELSE LET r == ResampleAllLoose(SubSeq(recs, 1, Len(recs) - 1))
             pts == Timed(recs[Len(recs)])
         IN  IF Len(pts) < 1 THEN r ELSE Append(r, resample_1hz(pts))

\* the loop of lines 284-295
RECURSIVE ResampleAll(_)
ResampleAll(recs) ==
    IF recs = <<>> THEN <<>>
    ELSE LET r == ResampleAll(SubSeq(recs, 1, Len(recs) - 1))
             pts == Timed(recs[Len(recs)])
         IN  IF Len(pts) < 2 THEN r ELSE Append(r, resample_1hz(pts))

\* lines 283-299, some recording usable
ResampleRecordings ==
    /\ pc = "resample"
    /\ ResampleAll(group.recs) # <<>>
    /\ resampled_tracks' = ResampleAll(group.recs)
    /\ resampled_gpx' = ResampleAll(group.recs)
    /\ pc' = "map"
    /\ UNCHANGED <<group, trp_pts, geom, mappings, t_epoch_pp,
                   t_vals, t_hat_final, aligned_gpx>>
    /\ UNCHANGED <<iso_vars, ev_vars, med_vars, fn_vars>>

\* lines 283-299, no recording usable
ReturnNoRecordings ==
    /\ pc = "resample"
    /\ ResampleAll(group.recs) = <<>>
    /\ pc' = "return_no_recordings"
    /\ UNCHANGED <<group, trp_pts, geom, resampled_tracks, mappings, t_epoch_pp,
                   t_vals, t_hat_final, resampled_gpx, aligned_gpx>>
    /\ UNCHANGED <<iso_vars, ev_vars, med_vars, fn_vars>>

\* lines 301-311
FitMappings ==
    /\ pc = "map"
    /\ mappings' = [k \in 1..Len(resampled_tracks) |->
                      fit_monotone_t_of_s(
                          weighted_mask(project_points_to_pattern(resampled_tracks[k], geom),
                                        MAX_PROJ_DIST))]
    /\ pc' = "fuse"
    /\ UNCHANGED <<group, trp_pts, geom, resampled_tracks, t_epoch_pp,
                   t_vals, t_hat_final, resampled_gpx, aligned_gpx>>
    /\ UNCHANGED <<iso_vars, ev_vars, med_vars, fn_vars>>

\* lines 313-329
FuseVertices ==
    /\ pc = "fuse"
    /\ t_epoch_pp' = Fuse(mappings, geom.S)
    /\ pc' = "fill"
    /\ UNCHANGED <<group, trp_pts, geom, resampled_tracks, mappings,
                   t_vals, t_hat_final, resampled_gpx, aligned_gpx>>
    /\ UNCHANGED <<iso_vars, ev_vars, med_vars, fn_vars>>

\* lines 334-365
FillVertexGaps ==
    /\ pc = "fill"
    /\ LET r == FillGaps(geom.S, t_epoch_pp)
       IN  /\ t_epoch_pp' = r.t
           /\ pc' = IF r.err THEN "raised" ELSE "nan"
    /\ UNCHANGED <<group, trp_pts, geom, resampled_tracks, mappings,
                   t_vals, t_hat_final, resampled_gpx, aligned_gpx>>
    /\ UNCHANGED <<iso_vars, ev_vars, med_vars, fn_vars>>

\* lines 368-387
ReplaceUndefined ==
    /\ pc = "nan"
    /\ t_vals' = FillNaN(t_epoch_pp)
    /\ pc' = "final"
    /\ UNCHANGED <<group, trp_pts, geom, resampled_tracks, mappings, t_epoch_pp,
                   t_hat_final, resampled_gpx, aligned_gpx>>
    /\ UNCHANGED <<iso_vars, ev_vars, med_vars, fn_vars>>

\* lines 389-405
WriteAligned ==
    /\ pc = "final"
    /\ t_hat_final' = FinalPass(t_vals)
    /\ aligned_gpx' = BuildAligned(trp_pts, FinalPass(t_vals))
    /\ pc' = "done"
    /\ UNCHANGED <<group, trp_pts, geom, resampled_tracks, mappings, t_epoch_pp,
                   t_vals, resampled_gpx>>
    /\ UNCHANGED <<iso_vars, ev_vars, med_vars, fn_vars>>

Next ==
    \/ ReturnNoGpx
    \/ ReturnNoPattern
    \/ ReturnShortPattern
    \/ LoadPattern
    \/ ResampleRecordings
    \/ ReturnNoRecordings
    \/ FitMappings
    \/ FuseVertices
    \/ FillVertexGaps
    \/ ReplaceUndefined
    \/ WriteAligned

Spec == Init /\ [][Next]_vars

\* ------------------------------------------------------------------------
\* Specification SpecIso: isotonic_increasing run step by step
\* ------------------------------------------------------------------------
YVals == {<<9, 10>>, Q(1), Q(2)}
WVals == {Q(1), <<1, 2>>}

IsoInputs ==
    {<<ys, ws>> \in SeqsUpTo(YVals, MaxN) \X (SeqsUpTo(WVals, MaxN) \cup {None}) :
        ws = None \/ Len(ws) = Len(ys)}

IsoInit ==
    /\ FnIdle
    /\ PasIdle
    /\ EvIdle
    /\ MedIdle
    /\ \E inp \in IsoInputs : y = inp[1] /\ w = inp[2]
    /\ iso_pc = "start"
    /\ n_done = 0
    /\ blocks = <<>>
    /\ y_hat = None

\* lines 126-132
IsoEnter ==
    /\ iso_pc = "start"
    /\ IF Len(y) = 0
         THEN /\ iso_pc' = "done"
              /\ y_hat' = <<>>
              /\ UNCHANGED <<w, blocks>>
         ELSE /\ iso_pc' = "loop"
              /\ w' = IF w = None THEN UnitWeights(Len(y)) ELSE w
              /\ blocks' = <<>>
              /\ UNCHANGED y_hat
    /\ UNCHANGED <<y, n_done>>
    /\ UNCHANGED <<pas_vars, ev_vars, med_vars, fn_vars>>

\* lines 133-144, one iteration
IsoPush ==
    /\ iso_pc = "loop"
    /\ n_done < Len(y)
    /\ blocks' = PushBlock(blocks, w[n_done + 1], y[n_done + 1])
    /\ n_done' = n_done + 1
    /\ UNCHANGED <<iso_pc, y, w, y_hat>>
    /\ UNCHANGED <<pas_vars, ev_vars, med_vars, fn_vars>>

\* lines 145-150
IsoExpand ==
    /\ iso_pc = "loop"
    /\ n_done = Len(y)
    /\ y_hat' = ExpandBlocks(blocks)
    /\ iso_pc' = "done"
    /\ UNCHANGED <<y, w, n_done, blocks>>
    /\ UNCHANGED <<pas_vars, ev_vars, med_vars, fn_vars>>

IsoNext == IsoEnter \/ IsoPush \/ IsoExpand

SpecIso == IsoInit /\ [][IsoNext]_vars

\* ---- properties of isotonic_increasing --------------------------------
NonDecreasing(q) == \A k \in 1..(Len(q) - 1) : QLe(q[k], q[k + 1])

RECURSIVE QSum(_)
QSum(q) == IF q = <<>> THEN Q(0) ELSE QAdd(QSum(SubSeq(q, 1, Len(q) - 1)), q[Len(q)])

\* weighted sum of squared deviations of z from ys
SqDev(z, ys, ws) ==
    QSum([k \in 1..Len(ys) |-> QMul(ws[k], QMul(QSub(z[k], ys[k]), QSub(z[k], ys[k])))])

\* weighted means of all runs ys[a..b]; contains every input value, and the
\* least-squares non-decreasing fit is known to take its values here
MeanGrid(ys, ws) ==
    {QDiv(QSum([k \in 1..(b - a + 1) |-> QMul(ws[a + k - 1], ys[a + k - 1])]),
          QSum([k \in 1..(b - a + 1) |-> ws[a + k - 1]])) :
        <<a, b>> \in {ab \in (1..Len(ys)) \X (1..Len(ys)) : ab[1] <= ab[2]}}

\* no non-decreasing sequence over G that extends the prefix z, whose weighted
\* squared deviation so far is acc, ends below fit
RECURSIVE NoneBelow(_, _, _, _, _, _)
NoneBelow(G, ys, ws, fit, z, acc) ==
    IF Len(z) = Len(ys) THEN QLe(fit, acc)
    ELSE LET k == Len(z) + 1
         IN  \A g \in G :
                (z = <<>> \/ QLe(z[Len(z)], g)) =>
                    NoneBelow(G, ys, ws, fit, Append(z, g),
                              QAdd(acc, QMul(ws[k], QMul(QSub(g, ys[k]), QSub(g, ys[k])))))

IsoWeights == IF w = None THEN UnitWeights(Len(y)) ELSE w

\* C8: the result of isotonic_increasing is non-decreasing, has the length of
\* the input, and no non-decreasing sequence over the grid of run means has a
\* smaller weighted sum of squared deviations from y; the values 1, 2, 0.9
\* with unit weights give 1, 1.45, 1.45.
C8_IsotonicIsLeastSquares ==
    iso_pc = "done" =>
        /\ Len(y_hat) = Len(y)
        /\ NonDecreasing(y_hat)
        /\ NoneBelow(MeanGrid(y, IsoWeights), y, IsoWeights,
                     SqDev(y_hat, y, IsoWeights), <<>>, Q(0))
        /\ (y = <<Q(1), Q(2), <<9, 10>>>> /\ IsoWeights = UnitWeights(3))
              => y_hat = <<Q(1), <<29, 20>>, <<29, 20>>>>

\* the textbook case has run to its end, and two blocks were pooled
C8_Witness ==
    /\ iso_pc = "done"
    /\ y = <<Q(1), Q(2), <<9, 10>>>>
    /\ w = UnitWeights(3)
    /\ Len(blocks) = 2

\* C9: a non-decreasing input is returned element by element, whatever the
\* positive weights are; and the result of any run is a fixed point.
C9_IsotonicIdentity ==
    iso_pc = "done" =>
        /\ NonDecreasing(y) => y_hat = y
        /\ isotonic_increasing(y_hat, w) = y_hat

\* a strictly increasing input with unequal weights has been fitted
C9_Witness ==
    /\ iso_pc = "done"
    /\ y = <<<<9, 10>>, Q(1), Q(2)>>
    /\ w = <<Q(1), <<1, 2>>, <<1, 2>>>>
    /\ y_hat = y

\* number of input elements covered by the blocks below block k
RECURSIVE CountBelow(_, _)
CountBelow(bs, k) == IF k <= 1 THEN 0 ELSE CountBelow(bs, k - 1) + bs[k - 1][3]

\* sum of w[i] and of w[i]*y[i] over the elements a..b
WSumOver(ys, ws, a, b) == QSum([k \in 1..(b - a + 1) |-> ws[a + k - 1]])
WYSumOver(ys, ws, a, b) ==
    QSum([k \in 1..(b - a + 1) |-> QMul(ws[a + k - 1], ys[a + k - 1])])

\* C21: after each element has been pushed and the merging has ended, the
\* block means do not decrease from bottom to top, the block counts add up
\* to the number of elements processed, and each block holds the sum of w and
\* of w*y over the consecutive elements it covers; the result then has the
\* length of the input and its weighted total.
C21_BlockStackInvariant ==
    (iso_pc \in {"loop", "done"} /\ Len(y) > 0) =>
        /\ \A k \in 1..(Len(blocks) - 1) :
              QLe(QDiv(blocks[k][2], blocks[k][1]),
                  QDiv(blocks[k + 1][2], blocks[k + 1][1]))
        /\ CountBelow(blocks, Len(blocks) + 1) = n_done
        /\ \A k \in 1..Len(blocks) :
              LET a == CountBelow(blocks, k) + 1
                  b == CountBelow(blocks, k) + blocks[k][3]
              IN  /\ blocks[k][3] >= 1
                  /\ blocks[k][1] = WSumOver(y, w, a, b)
                  /\ blocks[k][2] = WYSumOver(y, w, a, b)
        /\ iso_pc = "done" =>
              /\ n_done = Len(y)
              /\ Len(y_hat) = Len(y)
              /\ WYSumOver(y_hat, w, 1, Len(y)) = WYSumOver(y, w, 1, Len(y))

\* two elements of unequal weight have been pooled into one block, and a
\* third is still to come
C21_Witness ==
    /\ iso_pc = "loop"
    /\ n_done = 2
    /\ y = <<Q(2), Q(1), Q(2)>>
    /\ w = <<Q(1), <<1, 2>>, Q(1)>>
    /\ blocks = << <<(<<3, 2>>), (<<5, 2>>), 2>> >>

\* a run has ended with a pooled block under a single one
C21_WitnessDone ==
    /\ iso_pc = "done"
    /\ y = <<Q(2), Q(1), Q(2)>>
    /\ w = <<Q(1), <<1, 2>>, Q(1)>>
    /\ Len(blocks) = 2
    /\ y_hat = <<(<<5, 3>>), (<<5, 3>>), Q(2)>>

\* ------------------------------------------------------------------------
\* Properties of process_pasada (specification Spec)
\* ------------------------------------------------------------------------
TimedCount(rec) == Cardinality({k \in 1..Len(rec) : rec[k].time # None})

Undefined(ts) == {k \in 1..Len(ts) : ts[k] = None}

\* C1: the timestamps of the aligned pattern never decrease from one vertex to
\* the next, whatever sequence entered the last isotonic pass.
C1_AlignedMonotone ==
    pc = "done" =>
        /\ Len(aligned_gpx) = Len(t_vals)
        /\ \A k \in 1..(Len(aligned_gpx) - 1) :
              DtLe(aligned_gpx[k].time, aligned_gpx[k + 1].time)

\* the sequence that entered the last pass did decrease somewhere
C1_Witness ==
    /\ pc = "done"
    /\ Len(aligned_gpx) >= 3
    /\ \E k \in 1..(Len(t_vals) - 1) : QLt(t_vals[k + 1], t_vals[k])

C3_TooLittleInputReturns ==
    (pc # "start" /\ group.has_pattern) =>
        /\ Len(group.pattern) < 2 =>
              pc = "return_short_pattern" /\ aligned_gpx = None
        /\ (Len(group.pattern) >= 2 /\ pc # "resample"
              /\ \A k \in 1..Len(group.recs) : TimedCount(group.recs[k]) < 2) =>
              pc = "return_no_recordings" /\ aligned_gpx = None

\* a pattern of 2 points or more, and the only recording has one timed point
C3_Witness ==
    /\ pc = "return_no_recordings"
    /\ Len(trp_pts) >= 2
    /\ group.recs = <<RecShort>>

\* C4: the aligned pattern has one point per route point, in order, with the
\* latitude, longitude and elevation of that route point.
C4_AlignedKeepsGeometry ==
    pc = "done" =>
        /\ Len(aligned_gpx) = Len(group.pattern)
        /\ \A k \in 1..Len(group.pattern) :
              /\ aligned_gpx[k].lat = group.pattern[k].lat
              /\ aligned_gpx[k].lon = group.pattern[k].lon
              /\ aligned_gpx[k].ele = group.pattern[k].ele
              /\ aligned_gpx[k].time # None

\* four different route points, three of them with an elevation
C4_Witness ==
    /\ pc = "done"
    /\ Len(aligned_gpx) = 4
    /\ \A k \in 2..4 : aligned_gpx[k].ele # None
    /\ \A k \in 1..3 : aligned_gpx[k].lon # aligned_gpx[k + 1].lon

\* C5: when fusion has defined at least two vertices, the gap filling step
\* leaves no vertex undefined.
C5_GapFillingIsTotal ==
    [][(pc = "fill" /\ Cardinality(DefinedIdx(t_epoch_pp)) >= 2) =>
          (pc' = "nan" /\ Undefined(t_epoch_pp') = {})]_vars

\* fusion had left vertex 0 and a vertex between two defined ones undefined,
\* each defined vertex coming from another recording, and all are filled
C5_Witness ==
    /\ pc = "nan"
    /\ Len(mappings) = 2
    /\ DefinedIdx(Fuse(mappings, geom.S)) = {1, 3}
    /\ DefinedIdx(Fuse(<<mappings[1]>>, geom.S)) = {3}
    /\ DefinedIdx(Fuse(<<mappings[2]>>, geom.S)) = {1}
    /\ Undefined(t_epoch_pp) = {}

\* the steps of lines 305-389 on tracks given as they are
AlignTimes(tracks, g) ==
    LET maps == [k \in 1..Len(tracks) |->
                    fit_monotone_t_of_s(
                        weighted_mask(project_points_to_pattern(tracks[k], g),
                                      MAX_PROJ_DIST))]
    IN  FinalPass(FillNaN(FillGaps(g.S, Fuse(maps, g.S)).t))

\* C6: a straight route with vertices at 0, 10, 20 m and one recording on the
\* vertices at 100, 110, 120 s gets exactly these times, both when the three
\* points are projected as they are and when the recording is first resampled.
C6_OnVerticesExact ==
    (pc = "done" /\ group = OnVerticesGroup) =>
        /\ geom.S = <<Q(0), Q(10), Q(20)>>
        /\ AlignTimes(<<RecOnVertices>>, geom) = <<Q(100), Q(110), Q(120)>>
        /\ t_hat_final = <<Q(100), Q(110), Q(120)>>
        /\ [k \in 1..3 |-> aligned_gpx[k].time] = <<Sec(100, 0), Sec(110, 0), Sec(120, 0)>>

\* the scenario has run to its end, its 21 resampled points all on the route
C6_Witness ==
    /\ pc = "done"
    /\ group = OnVerticesGroup
    /\ Len(resampled_tracks[1]) = 21
    /\ Len(mappings[1].s_sorted) = 21

\* ------------------------------------------------------------------------
\* Specification SpecOrders: process_pasada on directories whose recordings
\* come in every order
\* ------------------------------------------------------------------------
\* a pattern of one point, a straight one of four, one with a repeated point
OrderPatterns ==
    { <<PatternPoint(0)>>,
      <<PatternPoint(0), PatternPoint(10), PatternPoint(20), PatternPoint(30)>>,
      <<PatternPoint(0), PatternPoint(10), PatternPoint(10), PatternPoint(20)>> }

\* up to MaxRecs different files of the catalogue, in any order
RecOrders ==
    {[k \in 1..Len(ix) |-> Catalogue[ix[k]]] :
        ix \in {q \in SeqsUpTo(1..Len(Catalogue), MaxRecs) :
                   \A a, b \in 1..Len(q) : q[a] = q[b] => a = b}}

OrderGroups ==
    [has_pattern : {TRUE}, pattern : OrderPatterns, recs : RecOrders]
      \cup [has_pattern : {FALSE}, pattern : {<<>>}, recs : {<<>>, <<RecFull>>}]

OrdersInit ==
    /\ IsoIdle
    /\ EvIdle
    /\ MedIdle
    /\ FnIdle
    /\ pc = "start"
    /\ group \in OrderGroups
    /\ trp_pts = None
    /\ geom = None
    /\ resampled_tracks = <<>>
    /\ mappings = <<>>
    /\ t_epoch_pp = <<>>
    /\ t_vals = <<>>
    /\ t_hat_final = <<>>
    /\ resampled_gpx = <<>>
    /\ aligned_gpx = None

SpecOrders == OrdersInit /\ [][Next]_vars

\* the orders in which the files of a sequence can come
Reorderings(q) ==
    {[k \in 1..Len(q) |-> q[f[k]]] :
        f \in {h \in [1..Len(q) -> 1..Len(q)] :
                  \A a, b \in 1..Len(q) : h[a] = h[b] => a = b}}

\* C12: the times of the aligned pattern do not depend on the order in which
\* the recordings are supplied: every other order of the same recordings
\* gives, vertex by vertex, the times this run has written.
C12_RecordingOrderIrrelevant ==
    pc = "done" =>
        \A recs \in Reorderings(group.recs) :
            LET te == AlignTimes(ResampleAll(recs), geom)
            IN  /\ te = t_hat_final
                /\ BuildAligned(trp_pts, te) = aligned_gpx

\* two recordings give different estimates at the same vertex
C12_Witness ==
    /\ pc = "done"
    /\ Len(group.recs) = 2
    /\ Len(mappings) = 2
    /\ \E k \in 1..Len(geom.S) :
          LET cand == Candidates(mappings, geom.S[k])
          IN  Len(cand) = 2 /\ cand[1] # cand[2]

\* the slope in (S, t) between the vertices a and a + 1, 0 when S is equal
SlopeAt(S_pp, ts, a) ==
    IF At(S_pp, a + 1) = At(S_pp, a) THEN Q(0)
    ELSE QDiv(QSub(At(ts, a + 1), At(ts, a)), QSub(At(S_pp, a + 1), At(S_pp, a)))

\* C18: when fusion has defined at least two vertices, gap filling gives an
\* undefined vertex between two defined ones the time on the straight line
\* in (S, t) through its nearest defined neighbours (the time of the lower
\* one when both have the same S); an undefined vertex before the first
\* defined one, or after the last, gets the time on the line through that
\* vertex with the slope of the pair of vertices next to that end (0 when
\* the two have the same S); a vertex that fusion defined keeps its time.
C18_GapFillingValues ==
    [][pc = "fill" =>
          LET S_pp == geom.S
              before == t_epoch_pp
              after == t_epoch_pp'
              D == DefinedIdx(before)
              first == CHOOSE a \in D : \A b \in D : a <= b
              last == CHOOSE a \in D : \A b \in D : b <= a
          IN  /\ \A i \in D : At(after, i) = At(before, i)
              /\ Cardinality(D) >= 2 =>
                    \A i \in (0..(Len(before) - 1)) \ D :
                        IF i < first
                          THEN At(after, i) =
                                 QAdd(At(after, first),
                                      QMul(SlopeAt(S_pp, after, first),
                                           QSub(At(S_pp, i), At(S_pp, first))))
                        ELSE IF i > last
                          THEN At(after, i) =
                                 QAdd(At(after, last),
                                      QMul(SlopeAt(S_pp, after, last - 1),
                                           QSub(At(S_pp, i), At(S_pp, last))))
                        ELSE LET lo == CHOOSE a \in D : a < i /\ \A b \in D : b < i => b <= a
                                 hi == CHOOSE a \in D : a > i /\ \A b \in D : b > i => a <= b
                                 s0 == At(S_pp, lo)
                                 s1 == At(S_pp, hi)
                                 t0 == At(before, lo)
                                 t1 == At(before, hi)
                             IN  At(after, i) =
                                   IF s1 = s0 THEN t0
                                   ELSE QAdd(t0, QMul(QDiv(QSub(At(S_pp, i), s0), QSub(s1, s0)),
                                                      QSub(t1, t0)))]_vars

\* fusion had defined the vertices at 10 m and 30 m, with 9 s and 7 s: the
\* vertex at 20 m is interpolated to 8 s and the one at 0 m extrapolated to 10 s
C18_Witness ==
    /\ pc = "nan"
    /\ geom.S = <<Q(0), Q(10), Q(20), Q(30)>>
    /\ Fuse(mappings, geom.S) = <<None, Q(9), None, Q(7)>>
    /\ t_epoch_pp = <<Q(10), Q(9), Q(8), Q(7)>>

\* fusion had defined the vertices at 10 m and 20 m, the last vertex is
\* extrapolated beyond them with their slope
C18_WitnessRight ==
    /\ pc = "nan"
    /\ geom.S = <<Q(0), Q(10), Q(20), Q(30)>>
    /\ DefinedIdx(Fuse(mappings, geom.S)) = {1, 2}
    /\ At(t_epoch_pp, 2) # At(t_epoch_pp, 1)
    /\ QSub(At(t_epoch_pp, 3), At(t_epoch_pp, 2)) = QSub(At(t_epoch_pp, 2), At(t_epoch_pp, 1))

\* lines 305-389 on the resampled tracks: the times after fusion, after gap
\* filling and after the last isotonic pass
AlignStages(tracks, g) ==
    LET maps == [k \in 1..Len(tracks) |->
                    fit_monotone_t_of_s(
                        weighted_mask(project_points_to_pattern(tracks[k], g),
                                      MAX_PROJ_DIST))]
        fused == Fuse(maps, g.S)
        filled == FillGaps(g.S, fused).t
    IN  [fused |-> fused, filled |-> filled, final |-> FinalPass(FillNaN(filled))]

\* every projection sample of the track is farther than MAX_PROJ_DIST
AllBeyondThreshold(track, g) ==
    LET samples == project_points_to_pattern(track, g)
    IN  \A k \in 1..Len(samples) :
            QLt(Q(MAX_PROJ_DIST * MAX_PROJ_DIST), samples[k].d2)

Without(q, k) == SubSeq(q, 1, k - 1) \o SubSeq(q, k + 1, Len(q))

\* C20: a recording whose projection samples are all beyond the distance
\* threshold gets the empty curve, which has no estimate at any vertex, and
\* when the group has other recordings its fused, gap-filled and final
\* times, and its aligned pattern, are those of the group without it.
C20_FarRecordingContributesNothing ==
    pc \in {"fuse", "fill", "nan", "final", "done"} =>
        \A k \in 1..Len(resampled_tracks) :
            AllBeyondThreshold(resampled_tracks[k], geom) =>
                /\ mappings[k] = [s_sorted |-> <<>>, t_hat |-> <<>>]
                /\ \A v \in 1..Len(geom.S) :
                      eval_t_of_s(mappings[k].s_sorted, mappings[k].t_hat, geom.S[v]) = None
                /\ Len(resampled_tracks) >= 2 =>
                      LET st == AlignStages(Without(resampled_tracks, k), geom)
                      IN  /\ pc = "fill" => t_epoch_pp = st.fused
                          /\ pc \in {"nan", "final", "done"} => t_epoch_pp = st.filled
                          /\ pc = "done" =>
                                /\ t_hat_final = st.final
                                /\ aligned_gpx = BuildAligned(trp_pts, st.final)

\* a recording 40 m off the route next to one on the route that defines
\* three vertices
C20_Witness ==
    /\ pc = "done"
    /\ group.recs = <<RecFar, RecFull>>
    /\ Len(geom.S) = 4
    /\ Len(project_points_to_pattern(resampled_tracks[1], geom)) = 3
    /\ mappings[1].s_sorted = <<>>
    /\ Cardinality(DefinedIdx(Fuse(mappings, geom.S))) = 3

\* ------------------------------------------------------------------------
\* Specification SpecEval: eval_t_of_s applied to a curve and a query
\* ------------------------------------------------------------------------
CurveS == {Q(0), Q(10), Q(20)}
CurveT == {Q(100), Q(110), Q(130)}
Queries == {Q(-5), Q(0), Q(5), Q(10), Q(15), Q(20), Q(25)}

\* curves as fit_monotone_t_of_s returns them: s sorted, t non-decreasing
Curves ==
    {c \in SeqsUpTo(CurveS, MaxCurve) \X SeqsUpTo(CurveT, MaxCurve) :
        /\ Len(c[1]) = Len(c[2])
        /\ \A k \in 1..(Len(c[1]) - 1) : QLe(c[1][k], c[1][k + 1])
        /\ \A k \in 1..(Len(c[2]) - 1) : QLe(c[2][k], c[2][k + 1])}

EvalInit ==
    /\ FnIdle
    /\ PasIdle
    /\ IsoIdle
    /\ MedIdle
    /\ ev_pc = "call"
    /\ \E c \in Curves : ev_s = c[1] /\ ev_t = c[2]
    /\ ev_q \in Queries
    /\ ev_r = None

\* lines 231-244
EvalCall ==
    /\ ev_pc = "call"
    /\ ev_r' = eval_t_of_s(ev_s, ev_t, ev_q)
    /\ ev_pc' = "done"
    /\ UNCHANGED <<ev_s, ev_t, ev_q>>
    /\ UNCHANGED <<pas_vars, iso_vars, med_vars, fn_vars>>

EvalNext == EvalCall

SpecEval == EvalInit /\ [][EvalNext]_vars

\* the query lies in the covered range of the curve, ends included
InRange(ss, q) == ss # <<>> /\ QLe(ss[1], q) /\ QLe(q, ss[Len(ss)])

\* r is a linear interpolation of the curve at q between two fitted points
\* that follow each other and bracket q
IsBracketValue(ss, ts, q, r) ==
    \/ \E k \in 1..(Len(ss) - 1) :
          /\ QLe(ss[k], q) /\ QLe(q, ss[k + 1])
          /\ r = IF ss[k + 1] = ss[k] THEN ts[k]
                 ELSE QAdd(ts[k], QMul(QDiv(QSub(q, ss[k]), QSub(ss[k + 1], ss[k])),
                                       QSub(ts[k + 1], ts[k])))
    \/ \E k \in 1..Len(ss) : ss[k] = q /\ r = ts[k]

\* C7: eval_t_of_s gives no estimate exactly when the curve is empty or the
\* query lies outside [smallest s, largest s]; inside, ends included, it gives
\* the linear interpolation between the bracketing fitted points.
C7_EvalInsideRange ==
    ev_pc = "done" =>
        /\ ev_r = None <=> ~InRange(ev_s, ev_q)
        /\ InRange(ev_s, ev_q) => IsBracketValue(ev_s, ev_t, ev_q, ev_r)

\* ------------------------------------------------------------------------
\* Specification SpecMedian: the estimates at one vertex fused
\* ------------------------------------------------------------------------
EstVals == {None, Q(100), Q(102), Q(104), Q(110)}

MedianInit ==
    /\ FnIdle
    /\ PasIdle
    /\ IsoIdle
    /\ EvIdle
    /\ med_pc = "call"
    /\ med_est \in SeqsUpTo(EstVals, MaxEst)
    /\ med_r = None

\* lines 324-329, for one vertex
MedianCall ==
    /\ med_pc = "call"
    /\ med_r' = median(Defined(med_est))
    /\ med_pc' = "done"
    /\ UNCHANGED med_est
    /\ UNCHANGED <<pas_vars, iso_vars, ev_vars, fn_vars>>

MedianNext == MedianCall

SpecMedian == MedianInit /\ [][MedianNext]_vars

DefinedAt(ests) == {k \in 1..Len(ests) : ests[k] # None}

\* the k-th smallest of the defined estimates, counted with repetitions
Kth(ests, k) ==
    CHOOSE x \in {ests[a] : a \in DefinedAt(ests)} :
        /\ Cardinality({a \in DefinedAt(ests) : QLt(ests[a], x)}) < k
        /\ k <= Cardinality({a \in DefinedAt(ests) : QLe(ests[a], x)})

\* C10: the fused time is the middle one of the defined estimates when their
\* number is odd, the mean of the two middle ones when it is even, and
\* undefined when there is none; {100, 104} gives 102, {100, 102, 110} gives 102.
C10_FusedIsMedian ==
    med_pc = "done" =>
        LET n == Cardinality(DefinedAt(med_est))
        IN  /\ n = 0 => med_r = None
            /\ (n > 0 /\ n % 2 = 1) => med_r = Kth(med_est, (n + 1) \div 2)
            /\ (n > 0 /\ n % 2 = 0) =>
                  med_r = QDiv(QAdd(Kth(med_est, n \div 2), Kth(med_est, n \div 2 + 1)), Q(2))
            /\ med_est = <<Q(100), Q(104)>> => med_r = Q(102)
            /\ med_est = <<Q(104), None, Q(100)>> => med_r = Q(102)
            /\ med_est = <<Q(110), Q(100), Q(102)>> => med_r = Q(102)

\* two estimates out of three recordings, fused to their mean
C10_Witness ==
    /\ med_pc = "done"
    /\ med_est = <<Q(104), None, Q(100)>>
    /\ med_r = Q(102)

\* ------------------------------------------------------------------------
\* Specification SpecCurve: weighted_mask, then fit_monotone_t_of_s, applied
\* to the projection samples of one recording (lines 306-307)
\* ------------------------------------------------------------------------
\* residual distances 0, max - 1, max and max + 1 metres, as their squares
CurveDist2 ==
    {Q(0), Q((MAX_PROJ_DIST - 1) * (MAX_PROJ_DIST - 1)),
     Q(MAX_PROJ_DIST * MAX_PROJ_DIST), Q((MAX_PROJ_DIST + 1) * (MAX_PROJ_DIST + 1))}

CurveSamples == [s : {Q(0), Q(10)}, t : {Q(1), Q(2)}, d2 : CurveDist2]

CurveInit ==
    /\ PasIdle
    /\ IsoIdle
    /\ EvIdle
    /\ MedIdle
    /\ DsIdle
    /\ PjIdle
    /\ RsIdle
    /\ GmIdle
    /\ MnIdle
    /\ cv_pc = "mask"
    /\ cv_samples \in SeqsUpTo(CurveSamples, MaxSamples)
    /\ cv_max = MAX_PROJ_DIST
    /\ cv_masked = <<>>
    /\ cv_fit = None

\* line 306
MaskCall ==
    /\ cv_pc = "mask"
    /\ cv_masked' = weighted_mask(cv_samples, cv_max)
    /\ cv_pc' = "fit"
    /\ UNCHANGED <<cv_samples, cv_max, cv_fit>>
    /\ UNCHANGED <<pas_vars, iso_vars, ev_vars, med_vars, pj_vars, rs_vars, gm_vars, mn_vars, ds_vars>>

\* line 307
FitCall ==
    /\ cv_pc = "fit"
    /\ cv_fit' = fit_monotone_t_of_s(cv_masked)
    /\ cv_pc' = "done"
    /\ UNCHANGED <<cv_samples, cv_max, cv_masked>>
    /\ UNCHANGED <<pas_vars, iso_vars, ev_vars, med_vars, pj_vars, rs_vars, gm_vars, mn_vars, ds_vars>>

CurveNext == MaskCall \/ FitCall

SpecCurve == CurveInit /\ [][CurveNext]_vars

\* the samples (by position) whose residual distance is not above max_dist
Retained(samples, max_dist) ==
    {k \in 1..Len(samples) : ~QLt(Q(max_dist * max_dist), samples[k].d2)}

\* C11: weighted_mask drops exactly the samples whose residual distance is
\* above the threshold (threshold + 1 is dropped, threshold - 1 and the
\* threshold itself are kept), keeps the others in their input order, and
\* gives each the weight w with w * (1 + (d/10)^2) = 1, which is in (0, 1].
C11_MaskDropsAboveThreshold ==
    cv_pc \in {"fit", "done"} =>
        LET K == Retained(cv_samples, cv_max)
            idx == SeqOfSet(K)
        IN  /\ \A k \in 1..Len(cv_samples) :
                  /\ cv_samples[k].d2 = Q((cv_max + 1) * (cv_max + 1)) => k \notin K
                  /\ cv_samples[k].d2 = Q((cv_max - 1) * (cv_max - 1)) => k \in K
            /\ Len(cv_masked) = Cardinality(K)
            /\ \A i \in 1..Len(cv_masked) :
                  /\ cv_masked[i].s = cv_samples[idx[i]].s
                  /\ cv_masked[i].t = cv_samples[idx[i]].t
                  /\ QMul(cv_masked[i].w,
                          QAdd(Q(1), QDiv(cv_samples[idx[i]].d2, Q(100)))) = Q(1)
                  /\ QLt(Q(0), cv_masked[i].w)
                  /\ QLe(cv_masked[i].w, Q(1))

\* a sample at threshold + 1 was dropped between one at threshold - 1 and one
\* at the threshold, both kept, the first with weight 100/941
C11_Witness ==
    /\ cv_pc = "fit"
    /\ Len(cv_samples) = 3
    /\ cv_samples[1].d2 = Q((cv_max - 1) * (cv_max - 1))
    /\ cv_samples[2].d2 = Q((cv_max + 1) * (cv_max + 1))
    /\ cv_samples[3].d2 = Q(cv_max * cv_max)
    /\ Len(cv_masked) = 2
    /\ cv_masked[1].w = <<100, 941>>
    /\ cv_masked[2].w = <<1, 10>>

\* the place a stable sort by s gives the sample at position i
StablePlace(ms, i) ==
    1 + Cardinality({j \in 1..Len(ms) :
                        \/ QLt(ms[j].s, ms[i].s)
                        \/ (ms[j].s = ms[i].s /\ j < i)})

\* C19: the fitted curve has one point per weighted sample, its s values and
\* its times are non-decreasing, samples of equal s stay apart and in their
\* input order (the times are fitted in that order), and no sample gives
\* the empty curve.
C19_FitKeepsSamplesSorted ==
    cv_pc = "done" =>
        LET n == Len(cv_masked)
            ord == [p \in 1..n |-> CHOOSE i \in 1..n : StablePlace(cv_masked, i) = p]
        IN  /\ Len(cv_fit.s_sorted) = n
            /\ Len(cv_fit.t_hat) = n
            /\ NonDecreasing(cv_fit.s_sorted)
            /\ NonDecreasing(cv_fit.t_hat)
            /\ cv_fit.s_sorted = [p \in 1..n |-> cv_masked[ord[p]].s]
            /\ cv_fit.t_hat = isotonic_increasing([p \in 1..n |-> cv_masked[ord[p]].t],
                                                  [p \in 1..n |-> cv_masked[ord[p]].w])
            /\ n = 0 => (cv_fit.s_sorted = <<>> /\ cv_fit.t_hat = <<>>)

\* two samples of equal s came with decreasing times after a sample of larger
\* s: the sort moved them to the front, in their order, and the fit pooled them
C19_Witness ==
    /\ cv_pc = "done"
    /\ Len(cv_masked) = 3
    /\ cv_masked[1].s = Q(10)
    /\ cv_masked[2].s = Q(0) /\ cv_masked[2].t = Q(2)
    /\ cv_masked[3].s = Q(0) /\ cv_masked[3].t = Q(1)
    /\ cv_fit.s_sorted = <<Q(0), Q(0), Q(10)>>
    /\ cv_fit.t_hat[1] = cv_fit.t_hat[2]
    /\ QLt(Q(1), cv_fit.t_hat[1])

\* nothing passed the mask and the curve is empty
C19_WitnessEmpty ==
    /\ cv_pc = "done"
    /\ Len(cv_samples) = 2
    /\ cv_masked = <<>>
    /\ cv_fit = [s_sorted |-> <<>>, t_hat |-> <<>>]

\* ------------------------------------------------------------------------
\* Specification SpecMain: main over the entries of data/raw
\* ------------------------------------------------------------------------
\* process_pasada as one call: what it has written when it returns, and
\* whether it raised instead
\* lines 343-405: the fused estimates are filled and written, or the
\* filling raises
PasadaAlign(d, tracks, filled) ==
    IF filled.err
      THEN [resampled |-> tracks, aligned |-> None, raised |-> TRUE]
      ELSE [resampled |-> tracks,
            aligned |-> BuildAligned(d.pattern, FinalPass(FillNaN(filled.t))),
            raised |-> FALSE]

\* lines 304-341: one curve per resampled recording, fused on the vertices
PasadaCurves(tracks, g) ==
    Fuse([k \in 1..Len(tracks) |->
             fit_monotone_t_of_s(
                 weighted_mask(project_points_to_pattern(tracks[k], g),
                               MAX_PROJ_DIST))],
         g.S)

\* lines 283-302: without a resampled recording nothing more is done
PasadaTracks(d, g, tracks) ==
    IF tracks = <<>>
      THEN [resampled |-> <<>>, aligned |-> None, raised |-> FALSE]
      ELSE PasadaAlign(d, tracks, FillGaps(g.S, PasadaCurves(tracks, g)))

process_pasada(d) ==
    IF ~d.has_pattern
      THEN [resampled |-> <<>>, aligned |-> None, raised |-> FALSE]
    ELSE IF Len(d.pattern) < 2
      THEN [resampled |-> <<>>, aligned |-> None, raised |-> FALSE]
    ELSE PasadaTracks(d, build_pattern_geometry(d.pattern), ResampleAll(d.recs))

\* (variant: the directories are taken in the order os.listdir gives them)
listdir_dirs(listing) == SelectSeq(listing, LAMBDA e : e.is_dir)

\* line 411: [d for d in sorted(os.listdir(RAW_DIR)) if isdir(d)]
RECURSIVE sorted_dirs(_)
sorted_dirs(listing) ==
    IF listing = <<>> THEN <<>>
    ELSE LET r == sorted_dirs(SubSeq(listing, 1, Len(listing) - 1))
             e == listing[Len(listing)]
             k == Cardinality({n \in 1..Len(r) : r[n].name <= e.name})
         IN  IF e.is_dir THEN SubSeq(r, 1, k) \o <<e>> \o SubSeq(r, k + 1, Len(r))
             ELSE r

\* The entries data/raw can hold; the names sort as the numbers do.
Straight3 == <<PatternPoint(0), PatternPoint(10), PatternPoint(20)>>

RawEntries ==
    { [name |-> 1, is_dir |-> TRUE,
       content |-> [has_pattern |-> TRUE, pattern |-> Straight3, recs |-> <<RecFull>>]],
      [name |-> 2, is_dir |-> TRUE,
       content |-> [has_pattern |-> FALSE, pattern |-> <<>>, recs |-> <<>>]],
      [name |-> 3, is_dir |-> TRUE,
       content |-> [has_pattern |-> FALSE, pattern |-> <<>>, recs |-> <<RecFull>>]],
      [name |-> 4, is_dir |-> TRUE,
       content |-> [has_pattern |-> TRUE, pattern |-> <<PatternPoint(0)>>, recs |-> <<RecFull>>]],
      [name |-> 5, is_dir |-> TRUE,
       content |-> [has_pattern |-> TRUE, pattern |-> Straight3, recs |-> <<RecShort>>]],
      [name |-> 6, is_dir |-> TRUE,
       content |-> [has_pattern |-> TRUE, pattern |-> Straight3, recs |-> <<RecShort, RecDiag>>]],
      [name |-> 7, is_dir |-> FALSE,
       content |-> [has_pattern |-> FALSE, pattern |-> <<>>, recs |-> <<>>]] }

\* os.listdir: every entry once, in any order
Listings ==
    {l \in SeqsUpTo(RawEntries, MaxBatch) :
        \A a, b \in 1..Len(l) : l[a] = l[b] => a = b}

\* a data/raw that does not exist ends main as an empty one does (lines 408-410)
MainInit ==
    /\ PasIdle
    /\ IsoIdle
    /\ EvIdle
    /\ MedIdle
    /\ DsIdle
    /\ CvIdle
    /\ PjIdle
    /\ RsIdle
    /\ GmIdle
    /\ mn_pc = "list"
    /\ mn_listing \in Listings
    /\ mn_pasadas = <<>>
    /\ mn_i = 0
    /\ mn_out = <<>>

\* lines 408-412; without a directory the loop has nothing to do
MainList ==
    /\ mn_pc = "list"
    /\ IF sorted_dirs(mn_listing) = <<>>
         THEN /\ mn_pc' = "done"
              /\ mn_pasadas' = <<>>
         ELSE /\ mn_pc' = "loop"
              /\ mn_pasadas' = sorted_dirs(mn_listing)
    /\ UNCHANGED <<mn_listing, mn_i, mn_out>>
    /\ UNCHANGED <<pas_vars, iso_vars, ev_vars, med_vars, cv_vars, pj_vars, rs_vars, gm_vars, ds_vars>>

\* lines 413-414, one iteration; an exception leaving process_pasada ends main
MainProcess ==
    /\ mn_pc = "loop"
    /\ mn_i < Len(mn_pasadas)
    /\ \E e \in {mn_pasadas[mn_i + 1]} : \E r \in {process_pasada(e.content)} :
           /\ mn_out' = Append(mn_out, [dir |-> e.name, resampled |-> r.resampled,
                                         aligned |-> r.aligned])
           /\ mn_pc' = IF r.raised THEN "raised"
                       ELSE IF mn_i + 1 = Len(mn_pasadas) THEN "done" ELSE "loop"
    /\ mn_i' = mn_i + 1
    /\ UNCHANGED <<mn_listing, mn_pasadas>>
    /\ UNCHANGED <<pas_vars, iso_vars, ev_vars, med_vars, cv_vars, pj_vars, rs_vars, gm_vars, ds_vars>>

MainNext == MainList \/ MainProcess

SpecMain == MainInit /\ [][MainNext]_vars

\* the failures of a group: no track file, no pattern, a pattern of fewer
\* than 2 points, no recording with 2 timed points
GroupFails(d) ==
    \/ ~d.has_pattern
    \/ Len(d.pattern) < 2
    \/ \A k \in 1..Len(d.recs) : TimedCount(d.recs[k]) < 2

DirNamed(listing, name) == CHOOSE e \in Range(listing) : e.name = name

\* C13: main handles every directory of data/raw exactly once, in sorted
\* order; a failing group writes no aligned pattern and the groups after it
\* are handled all the same; a recording with fewer than 2 timed points is
\* left out and the rest of its group is aligned.
C13_BatchHandlesEveryGroup ==
    mn_pc # "list" =>
        LET dirs == {e \in Range(mn_listing) : e.is_dir}
        IN  /\ mn_pc \in {"loop", "done"}
            /\ mn_pc = "loop" => mn_i < Len(mn_pasadas)
            /\ mn_pc = "done" => mn_i = Len(mn_pasadas)
            /\ Len(mn_pasadas) = Cardinality(dirs)
            /\ Range(mn_pasadas) = dirs
            /\ \A k \in 1..(Len(mn_pasadas) - 1) :
                  mn_pasadas[k].name < mn_pasadas[k + 1].name
            /\ Len(mn_out) = mn_i
            /\ \A k \in 1..Len(mn_out) :
                  LET d == mn_pasadas[k].content
                  IN  /\ mn_out[k].dir = mn_pasadas[k].name
                      /\ GroupFails(d) => mn_out[k].aligned = None
                      /\ ~GroupFails(d) =>
                            /\ mn_out[k].aligned # None
                            /\ Len(mn_out[k].aligned) = Len(d.pattern)
                            /\ Len(mn_out[k].resampled) =
                                  Cardinality({n \in 1..Len(d.recs) :
                                                  TimedCount(d.recs[n]) >= 2})

\* data/raw was listed out of order; the group handled first failed, the
\* one after it was aligned, one of its two recordings left out
C13_Witness ==
    /\ mn_pc = "done"
    /\ Len(mn_listing) = 3
    /\ mn_listing[1].name > mn_listing[2].name
    /\ Len(mn_out) >= 2
    /\ mn_out[1].aligned = None
    /\ mn_out[Len(mn_out)].dir = 6
    /\ mn_out[Len(mn_out)].aligned # None
    /\ Len(mn_out[Len(mn_out)].resampled) = 1

\* ------------------------------------------------------------------------
\* Specification SpecGeom: build_pattern_geometry applied to a route
\* ------------------------------------------------------------------------
\* Routes of 2 to MaxRoute points over the corners of a 30 m x 40 m
\* rectangle (sides 30 and 40, diagonals 50), starting on the equator, in
\* any order, a corner possibly repeated.
Corners == {<<0, 0>>, <<30, 0>>, <<30, 40>>, <<0, 40>>}

Routes ==
    {[k \in 1..Len(r) |-> Pt(r[k][1], r[k][2], None, None)] :
        r \in {q \in SeqsUpTo(Corners, MaxRoute) : Len(q) >= 2 /\ q[1][2] = 0}}

GeomInit ==
    /\ PasIdle
    /\ IsoIdle
    /\ EvIdle
    /\ MedIdle
    /\ DsIdle
    /\ CvIdle
    /\ PjIdle
    /\ RsIdle
    /\ MnIdle
    /\ gm_pc = "call"
    /\ gm_pts \in Routes
    /\ gm_g = None

\* line 273
GeomCall ==
    /\ gm_pc = "call"
    /\ gm_g' = build_pattern_geometry(gm_pts)
    /\ gm_pc' = "done"
    /\ UNCHANGED gm_pts
    /\ UNCHANGED <<pas_vars, iso_vars, ev_vars, med_vars, cv_vars, pj_vars, rs_vars, mn_vars, ds_vars>>

GeomNext == GeomCall

SpecGeom == GeomInit /\ [][GeomNext]_vars

\* C14: a route of n >= 2 points gets n arc lengths S and n - 1 segment
\* lengths; S[0] = 0, every S[i] is S[i-1] plus the length of the segment
\* before it, that length is the distance between the two points and never
\* negative, so S never decreases, and a repeated point adds nothing.
C14_ArcLengthAccumulates ==
    gm_pc = "done" =>
        LET n == Len(gm_pts)
        IN  /\ n >= 2
            /\ Len(gm_g.S) = n
            /\ Len(gm_g.seglen) = n - 1
            /\ gm_g.S[1] = Q(0)
            /\ \A k \in 1..(n - 1) :
                  LET dx == QSub(gm_pts[k + 1].lon, gm_pts[k].lon)
                      dy == QSub(gm_pts[k + 1].lat, gm_pts[k].lat)
                      L == gm_g.seglen[k]
                  IN  /\ QLe(Q(0), L)
                      /\ QMul(L, L) = QAdd(QMul(dx, dx), QMul(dy, dy))
                      /\ gm_g.S[k + 1] = QAdd(gm_g.S[k], L)
                      /\ QLe(gm_g.S[k], gm_g.S[k + 1])
                      /\ gm_pts[k + 1] = gm_pts[k] => gm_g.S[k + 1] = gm_g.S[k]

\* a route that goes east, stays, goes back west and then along a diagonal
C14_Witness ==
    /\ gm_pc = "done"
    /\ [k \in 1..Len(gm_pts) |-> <<gm_pts[k].lon, gm_pts[k].lat>>]
          = <<<<Q(30), Q(0)>>, <<Q(30), Q(0)>>, <<Q(0), Q(0)>>, <<Q(30), Q(40)>>>>
    /\ gm_g.S = <<Q(0), Q(0), Q(30), Q(80)>>

\* ------------------------------------------------------------------------
\* Specification SpecResample: resample_1hz applied to a track
\* ------------------------------------------------------------------------
\* Tracks of up to MaxPts points, in any order of time, a time possibly
\* missing or repeated, on or off a whole second.
TrackTimes == {None, Sec(1, 0), Sec(1, 500000), Sec(2, 300000), Sec(4, 0)}

TrackPoints == {Pt(lon, 0, None, t) : lon \in {0, 10}, t \in TrackTimes}

ResampleInit ==
    /\ PasIdle
    /\ IsoIdle
    /\ EvIdle
    /\ MedIdle
    /\ DsIdle
    /\ CvIdle
    /\ PjIdle
    /\ GmIdle
    /\ MnIdle
    /\ rs_pc = "call"
    /\ rs_in \in SeqsUpTo(TrackPoints, MaxPts)
    /\ rs_out = <<>>

\* lines 100-117
ResampleCall ==
    /\ rs_pc = "call"
    /\ rs_out' = resample_1hz(rs_in)
    /\ rs_pc' = "done"
    /\ UNCHANGED rs_in
    /\ UNCHANGED <<pas_vars, iso_vars, ev_vars, med_vars, cv_vars, pj_vars, gm_vars, mn_vars, ds_vars>>

ResampleNext == ResampleCall

SpecResample == ResampleInit /\ [][ResampleNext]_vars

\* the times of a track, in microseconds
TimesOf(pts) == {pts[k].time[1] : k \in {m \in 1..Len(pts) : pts[m].time # None}}

\* C15: for a track with at least 2 timed points the result has a time on
\* every point; the first is the time at which the track starts, cut to the
\* whole second, each next one is exactly 1 second later, and the last is
\* the time at which the track ends, cut to the whole second.  (Start and
\* end are the earliest and the latest time: the points are put in time
\* order first.)
C15_ResampledEverySecond ==
    (rs_pc = "done" /\ TimedCount(rs_in) >= 2) =>
        LET lo == CHOOSE a \in TimesOf(rs_in) : \A b \in TimesOf(rs_in) : a <= b
            hi == CHOOSE a \in TimesOf(rs_in) : \A b \in TimesOf(rs_in) : b <= a
            n == Len(rs_out)
        IN  /\ n >= 1
            /\ \A k \in 1..n : rs_out[k].time # None
            /\ rs_out[1].time[1] % Micro = 0
            /\ rs_out[1].time[1] <= lo /\ lo < rs_out[1].time[1] + Micro
            /\ \A k \in 1..(n - 1) : rs_out[k + 1].time[1] = rs_out[k].time[1] + Micro
            /\ rs_out[n].time[1] % Micro = 0
            /\ rs_out[n].time[1] <= hi /\ hi < rs_out[n].time[1] + Micro

\* a track given latest point first, with an untimed point in between,
\* starting at 1.5 s and ending at 4 s: four points at 1, 2, 3 and 4 s
C15_Witness ==
    /\ rs_pc = "done"
    /\ [k \in 1..Len(rs_in) |-> rs_in[k].time] = <<Sec(4, 0), None, Sec(1, 500000)>>
    /\ [k \in 1..Len(rs_out) |-> rs_out[k].time] = <<Sec(1, 0), Sec(2, 0), Sec(3, 0), Sec(4, 0)>>

\* ------------------------------------------------------------------------
\* Specification SpecProject: project_points_to_pattern, one recording point
\* per step
\* ------------------------------------------------------------------------
\* Short routes: one that starts with a repeated point, one with a repeated
\* point inside, one with a corner.
ShortRoutes ==
    { <<Pt(0, 0, None, None), Pt(0, 0, None, None), Pt(10, 0, None, None)>>,
      <<Pt(0, 0, None, None), Pt(10, 0, None, None), Pt(10, 0, None, None),
        Pt(20, 0, None, None)>>,
      <<Pt(0, 0, None, None), Pt(10, 0, None, None), Pt(10, 10, None, None)>> }

\* A straight route of LongSegs segments of 1 m: from its first segment the
\* last one is beyond SEARCH_AHEAD, and from segment SEARCH_AHEAD the first
\* one is beyond SEARCH_BACK.
LongSegs == SEARCH_AHEAD + 5

LongRoute == [k \in 1..(LongSegs + 1) |-> Pt(k - 1, 0, None, None)]

\* positions of a recording point: on the short routes, beside them, beyond
\* them; at the two ends of the long route
FixPlaces == {<<0, 0>>, <<4, 3>>, <<10, 4>>, <<14, 0>>, <<LongSegs, 0>>}
EndPlaces == {<<0, 0>>, <<LongSegs, 0>>}

\* resampled recordings: one point per second from 100 s on
Recordings(places) ==
    {[k \in 1..Len(r) |-> Pt(r[k][1], r[k][2], None, Sec(99 + k, 0))] :
        r \in {q \in SeqsUpTo(places, MaxFixes) : Len(q) >= 1}}

ProjInputs ==
    (ShortRoutes \X Recordings(FixPlaces)) \cup ({LongRoute} \X Recordings(EndPlaces))

ProjectInit ==
    /\ PasIdle
    /\ IsoIdle
    /\ EvIdle
    /\ MedIdle
    /\ DsIdle
    /\ CvIdle
    /\ RsIdle
    /\ GmIdle
    /\ MnIdle
    /\ pj_pc = "enter"
    /\ \E inp \in ProjInputs :
          /\ pj_g = build_pattern_geometry(inp[1])
          /\ pj_pts = inp[2]
    /\ pj_j = 0
    /\ pj_k = 0
    /\ pj_out = <<>>

\* lines 176-184
ProjectEnter ==
    /\ pj_pc = "enter"
    /\ IF Len(pj_g.X) < 2
         THEN /\ pj_pc' = "done"
              /\ pj_j' = pj_j
         ELSE LET nseg == Len(pj_g.seglen)
                  p0 == pj_pts[1]
                  p0xy == to_xy(pj_g.lat0, pj_g.lon0, p0.lat, p0.lon)
              IN  /\ pj_j' = Max(0, Min(nseg - 1,
                                 closest_vertex_index(p0xy[1], p0xy[2], pj_g.X, pj_g.Y) - 1))
                  /\ pj_pc' = "loop"
    /\ UNCHANGED <<pj_pts, pj_g, pj_k, pj_out>>
    /\ UNCHANGED <<pas_vars, iso_vars, ev_vars, med_vars, cv_vars, rs_vars, gm_vars, mn_vars, ds_vars>>

\* lines 186-205, one pass; after the last point the lists are returned
ProjectStep ==
    /\ pj_pc = "loop"
    /\ pj_k < Len(pj_pts)
    /\ \E r \in {ProjectPoint(pj_pts[pj_k + 1], pj_g, pj_j)} :
           /\ pj_j' = r.j
           /\ pj_out' = Append(pj_out, r.sample)
    /\ pj_k' = pj_k + 1
    /\ pj_pc' = IF pj_k + 1 = Len(pj_pts) THEN "done" ELSE "loop"
    /\ UNCHANGED <<pj_pts, pj_g>>
    /\ UNCHANGED <<pas_vars, iso_vars, ev_vars, med_vars, cv_vars, rs_vars, gm_vars, mn_vars, ds_vars>>

ProjectNext == ProjectEnter \/ ProjectStep

SpecProject == ProjectInit /\ [][ProjectNext]_vars

\* square of the distance from recording point p to the point at fraction u
\* of segment i (0-based) of the route
Dist2At(p, g, i, u) ==
    LET xy == to_xy(g.lat0, g.lon0, p.lat, p.lon)
        qx == QAdd(At(g.X, i), QMul(u, QSub(At(g.X, i + 1), At(g.X, i))))
        qy == QAdd(At(g.Y, i), QMul(u, QSub(At(g.Y, i + 1), At(g.Y, i))))
    IN  Hypot2(QSub(xy[1], qx), QSub(xy[2], qy))

\* C16: one sample per recording point, in the order of the recording, with
\* the time of its point; its s lies on the winning segment, S[seg] <= s <=
\* S[seg+1], at the fraction u = (s - S[seg]) / len(seg) in [0, 1], where the
\* segment is at the residual distance of the sample and no nearer at its
\* ends or its middle; 0 <= s <= length of the route; on a segment of length
\* zero s = S[seg].  The stepwise run returns what the function returns.
C16_OneSamplePerPoint ==
    pj_pc \in {"loop", "done"} =>
        /\ Len(pj_out) = pj_k
        /\ pj_pc = "done" =>
              /\ pj_k = Len(pj_pts)
              /\ pj_out = project_points_to_pattern(pj_pts, pj_g)
        /\ \A k \in 1..pj_k :
              /\ pj_out[k].t = Norm(pj_pts[k].time[1], Micro)
              /\ QLe(Q(0), pj_out[k].s)
              /\ QLe(pj_out[k].s, pj_g.S[Len(pj_g.S)])
        /\ pj_k >= 1 =>
              LET m == pj_out[pj_k]
                  p == pj_pts[pj_k]
                  L == At(pj_g.seglen, pj_j)
                  u == IF L = Q(0) THEN Q(0) ELSE QDiv(QSub(m.s, At(pj_g.S, pj_j)), L)
              IN  /\ QLe(At(pj_g.S, pj_j), m.s)
                  /\ QLe(m.s, At(pj_g.S, pj_j + 1))
                  /\ L = Q(0) => m.s = At(pj_g.S, pj_j)
                  /\ QLe(Q(0), u) /\ QLe(u, Q(1))
                  /\ m.d2 = Dist2At(p, pj_g, pj_j, u)
                  /\ \A v \in {Q(0), <<1, 2>>, Q(1)} : QLe(m.d2, Dist2At(p, pj_g, pj_j, v))

\* on the route that starts with a repeated point: the first sample is on
\* the segment of length zero, the second inside the next segment at u = 0.4
\* and 3 m from it, the third clamped to the end of the route
C16_Witness ==
    /\ pj_pc = "done"
    /\ pj_g.S = <<Q(0), Q(0), Q(10)>>
    /\ [k \in 1..Len(pj_pts) |-> <<pj_pts[k].lon, pj_pts[k].lat>>]
          = <<<<Q(0), Q(0)>>, <<Q(4), Q(3)>>, <<Q(14), Q(0)>>>>
    /\ pj_out = <<[s |-> Q(0), t |-> Q(100), d2 |-> Q(0)],
                  [s |-> Q(4), t |-> Q(101), d2 |-> Q(9)],
                  [s |-> Q(10), t |-> Q(102), d2 |-> Q(16)]>>

\* the vertices nearest to recording point p
NearestVertices(p, g) ==
    LET xy == to_xy(g.lat0, g.lon0, p.lat, p.lon)
        D(i) == Hypot2(QSub(At(g.X, i), xy[1]), QSub(At(g.Y, i), xy[2]))
    IN  {i \in 0..(Len(g.X) - 1) : \A k \in 0..(Len(g.X) - 1) : QLe(D(i), D(k))}

\* the residual distance (squared) of p to segment i, the nearest point of
\* the segment taken among its points at fractions u in [0, 1]
Residual2(p, g, i) == proj_on_segment(to_xy(g.lat0, g.lon0, p.lat, p.lon)[1],
                                      to_xy(g.lat0, g.lon0, p.lat, p.lon)[2],
                                      At(g.X, i), At(g.Y, i),
                                      At(g.X, i + 1), At(g.Y, i + 1), TRUE)[4]

\* C17: the cursor is always a segment index of the route; a call starts it
\* at the segment before the vertex nearest to the first point of its
\* recording (the lowest such vertex), kept inside the route; each pass looks
\* at the segments from j - SEARCH_BACK to j + SEARCH_AHEAD inside the route
\* only, takes one of least residual distance among them, the lowest when
\* several are, and leaves the cursor on it.
C17_CursorStaysInWindow ==
    /\ [](pj_pc \in {"loop", "done"} =>
              /\ pj_j \in 0..(Len(pj_g.seglen) - 1)
              /\ pj_k = 0 =>
                    LET near == NearestVertices(pj_pts[1], pj_g)
                        v == CHOOSE a \in near : \A b \in near : a <= b
                    IN  pj_j = Max(0, Min(Len(pj_g.seglen) - 1, v - 1)))
    /\ [][pj_pc = "loop" =>
              LET p == pj_pts[pj_k + 1]
                  i0 == Max(0, pj_j - SEARCH_BACK)
                  i1 == Min(Len(pj_g.seglen) - 1, pj_j + SEARCH_AHEAD)
                  win == Residual2(p, pj_g, pj_j')
              IN  /\ pj_j' \in i0..i1
                  /\ pj_out'[pj_k + 1].d2 = win
                  /\ \A i \in i0..i1 : QLe(win, Residual2(p, pj_g, i))
                  /\ \A i \in i0..(pj_j' - 1) : QLt(win, Residual2(p, pj_g, i))]_vars

\* on the long route: from segment 0 the point at the far end is projected on
\* segment SEARCH_AHEAD, the last one looked at, 4 m short of it; from there
\* the point at the start is projected on segment SEARCH_AHEAD - SEARCH_BACK
C17_Witness ==
    /\ pj_pc = "done"
    /\ Len(pj_g.seglen) = LongSegs
    /\ [k \in 1..Len(pj_pts) |-> pj_pts[k].lon] = <<Q(0), Q(LongSegs), Q(0)>>
    /\ [k \in 1..Len(pj_out) |-> pj_out[k].s] = <<Q(0), Q(81), Q(60)>>
    /\ pj_out[2].d2 = Q(4 * 4)
    /\ pj_j = 60

\* ------------------------------------------------------------------------
\* generate_input_dataset.py: windows of deltas written as CSV files
\* ------------------------------------------------------------------------
WINDOW_SIZE == 3600
STEP_SIZE == 1800

MaxOf(S) == CHOOSE m \in S : \A x \in S : x <= m
MinOf(S) == CHOOSE m \in S : \A x \in S : m <= x

to_local_xy(lat0, lon0, lat, lon) ==
    <<QMul(QSub(lon, lon0), CosLat(lat0)), QSub(lat, lat0)>>

\* the points that carry a time; a missing elevation is read as 0.0
read_gpx_points(file_pts) ==
    LET timed == SelectSeq(file_pts, LAMBDA q : q.time # None)
    IN  [k \in 1..Len(timed) |->
            [timed[k] EXCEPT !.ele = IF @ = None THEN Q(0) ELSE @]]

\* A window spans more seconds than a count of microseconds can hold in the
\* integers of the model: the times of this program are kept as
\* <<seconds, microseconds>>.
\* int(p["time"].timestamp()) for a time at or after the epoch
EpochSecond(pt) == pt.time[1]

\* a dict: of two points in the same second the later one stays
build_time_index(points) ==
    [t \in {EpochSecond(points[k]) : k \in 1..Len(points)} |->
        points[MaxOf({k \in 1..Len(points) : EpochSecond(points[k]) = t})]]

\* <<t0, t1>>, or None for (None, None)
common_time_range(a, b) ==
    IF DOMAIN a = {} \/ DOMAIN b = {} THEN None
    ELSE LET t0 == Max(MinOf(DOMAIN a), MinOf(DOMAIN b))
             t1 == Min(MaxOf(DOMAIN a), MaxOf(DOMAIN b))
         IN  IF t1 - t0 >= 1 THEN <<t0, t1>> ELSE None

\* one entry [x, y, z, t] per second of t0..t1; x = y = None is NaN.  `last`
\* is the point of the latest second of t0..t that the index holds.
to_seq(idx, lat0, lon0, t0, t1) ==
    [n \in 1..(t1 - t0 + 1) |->
        LET t == t0 + n - 1
            ks == {k \in DOMAIN idx : t0 <= k /\ k <= t}
        IN  IF ks = {} THEN [x |-> None, y |-> None, z |-> Q(0), t |-> t]
            ELSE LET xy == to_local_xy(lat0, lon0, idx[MaxOf(ks)].lat, idx[MaxOf(ks)].lon)
                 IN  [x |-> xy[1], y |-> xy[2],
                      z |-> IF idx[MaxOf(ks)].ele # None THEN idx[MaxOf(ks)].ele
                            ELSE Q(0),
                      t |-> t]]

\* <<dx, dy, dz>> per entry, zero for the first
deltas(q) ==
    [i \in 1..Len(q) |->
        IF i = 1 THEN <<Q(0), Q(0), Q(0)>>
        ELSE <<QSub(q[i].x, q[i - 1].x), QSub(q[i].y, q[i - 1].y),
               QSub(q[i].z, q[i - 1].z)>>]

\* s <= 1e-12: every rational of the model has a denominator below 10^12, so
\* it is at most 1e-12 exactly when it is at most 0
norm(v, m, s) == IF s[1] <= 0 THEN Q(0) ELSE QDiv(QSub(v, m), s)

\* the loop of lines 117-123; suffix '' for an odd k, 'a' for an even one
RECURSIVE WindowsFrom(_, _, _, _, _, _)
WindowsFrom(n, win, step, k, start, out) ==
    IF ~(start < n) THEN out
    ELSE LET end == Min(n - 1, start + win - 1)
             suffix == IF k % 2 = 1 THEN "" ELSE "a"
         IN  IF end = n - 1 THEN Append(out, <<start, end, suffix>>)
             ELSE WindowsFrom(n, win, step, k + 1, start + step,
                              Append(out, <<start, end, suffix>>))

window_indices(n, win, step) == WindowsFrom(n, win, step, 1, 0, <<>>)

\* the integer 0 that pad writes: save_csv prints it "0", a float zero "0.0"
ZeroInt == <<0, 0>>

\* rows are <<dx, dy, dz>>: the first column is set to the row number in
\* lines 253-254 whatever pad gave it.  Returns <<padrows, mask>>.
pad(rows, win) ==
    IF Len(rows) >= win THEN <<SubSeq(rows, 1, win), [i \in 1..win |-> 1]>>
    ELSE << [i \in 1..win |-> IF i <= Len(rows) THEN rows[i]
                              ELSE <<ZeroInt, ZeroInt, ZeroInt>>],
            [i \in 1..win |-> IF i <= Len(rows) THEN 1 ELSE 0] >>

\* The text of a CSV file of deltas: its number of rows and the rows before
\* the ones pad has added at its end.
RowsFile(rows) ==
    [n |-> Len(rows),
     data |-> SelectSeq(rows, LAMBDA r : r # <<ZeroInt, ZeroInt, ZeroInt>>)]

\* The text of a mask file: its number of rows and how many of them are 1
\* (the ones come first).
MaskFile(mask) ==
    [n |-> Len(mask), data |-> Cardinality({i \in 1..Len(mask) : mask[i] = 1})]

\* save_csv: the file at path is created or replaced
save_csv(files, path, content) ==
    [q \in (DOMAIN files) \cup {path} |-> IF q = path THEN content ELSE files[q]]

\* lines 225-248 for one recording: None where the code says continue, else
\* the times tp, the normalised deltas of pattern and recording, the windows
RecSeries(stats, trp_pts0, rec_pts) ==
    IF Len(rec_pts) < 2 THEN None
    ELSE LET trp_idx == build_time_index(trp_pts0)
             rec_idx == build_time_index(rec_pts)
             tr == common_time_range(trp_idx, rec_idx)
         IN  IF tr = None THEN None
             ELSE LET sp == to_seq(trp_idx, trp_pts0[1].lat, trp_pts0[1].lon, tr[1], tr[2])
                      sg == to_seq(rec_idx, trp_pts0[1].lat, trp_pts0[1].lon, tr[1], tr[2])
                      valid == {i \in 1..Len(sg) : sg[i].x # None /\ sp[i].x # None}
                  IN  IF Cardinality(valid) < 2 THEN None
                      ELSE LET vp == SelectSeq(sp, LAMBDA e : e.x # None /\ sg[e.t - tr[1] + 1].x # None)
                               vg == SelectSeq(sg, LAMBDA e : e.x # None /\ sp[e.t - tr[1] + 1].x # None)
                               nrm(d) == <<norm(d[1], stats.mean.dx, stats.std.dx),
                                           norm(d[2], stats.mean.dy, stats.std.dy),
                                           norm(d[3], stats.mean.dz, stats.std.dz)>>
                               dp == deltas(vp)
                               dg == deltas(vg)
                           IN  [tp |-> [i \in 1..Len(vp) |-> vp[i].t],
                                lab |-> [i \in 1..Len(dp) |-> nrm(dp[i])],
                                slc |-> [i \in 1..Len(dg) |-> nrm(dg[i])],
                                wins |-> window_indices(Len(vp), WINDOW_SIZE, STEP_SIZE)]

\* lines 249-263 for window k of a recording: the three paths and contents.
\* A file name is name_tag.csv; a tag k or ka holds no underscore, so the
\* name and the tag are read back from it, and a path is kept as
\* <<directory, name, k, suffix>>.
WindowFiles(cur, pattern_name, rec_name, k) ==
    LET i0 == cur.wins[k][1]
        i1 == cur.wins[k][2]
        suf == cur.wins[k][3]
        lab == pad(SubSeq(cur.lab, i0 + 1, i1 + 1), WINDOW_SIZE)
        slc == pad(SubSeq(cur.slc, i0 + 1, i1 + 1), WINDOW_SIZE)
    IN  [label_path |-> <<"labels", pattern_name, k, suf>>,
         slice_path |-> <<"slices", rec_name, k, suf>>,
         mask_path |-> <<"masks", rec_name, k, suf>>,
         label |-> RowsFile(lab[1]),
         slice |-> RowsFile(slc[1]),
         mask |-> MaskFile(slc[2]),
         tag |-> <<k, suf>>,
         t_start |-> cur.tp[i0 + 1],
         t_end |-> cur.tp[Min(i1, Len(cur.tp) - 1) + 1],
         n_points |-> Len(slc[1])]

\* ------------------------------------------------------------------------
\* Specification SpecDataset: pass2_generate_csvs over data/preprocessed
\* ------------------------------------------------------------------------
MaxFiles == 2

\* a file of points one second apart from second t0 on, at the given metres
\* east of the origin
Track1Hz(t0, lons) ==
    [k \in 1..Len(lons) |-> Pt(lons[k], 0, None, <<t0 + k - 1, 0>>)]

Pattern5 == Track1Hz(0, <<0, 10, 20, 30, 40>>)

\* the files *_resampled.gpx a directory can hold beside its pattern: two
\* recordings that overlap the pattern over different seconds, one of a
\* single point, one that ends before the pattern begins
GpxFiles ==
    { [name |-> "a_resampled", pts |-> Track1Hz(0, <<0, 11, 19, 31, 40>>)],
      [name |-> "b_resampled", pts |-> Track1Hz(2, <<20, 30, 41>>)],
      [name |-> "c_resampled", pts |-> Track1Hz(1, <<12>>)],
      [name |-> "d_resampled", pts |-> Track1Hz(10, <<0, 10>>)] }

\* glob gives the files of a directory in any order
GpxLists ==
    {l \in SeqsUpTo(GpxFiles, MaxFiles) :
        \A a, b \in 1..Len(l) : l[a] = l[b] => a = b}

NoPattern == [name |-> "", pts |-> <<>>]

Pasada1 ==
    {[name |-> "1", has_pattern |-> TRUE,
      pattern |-> [name |-> "1_pattern_aligned_resampled", pts |-> Pattern5],
      recs |-> l] : l \in GpxLists}

\* a second directory: one whose recording has the name of a recording of
\* the first, and two points in one second; one without a pattern; one whose pattern has a single point;
\* one whose pattern has no point in the seconds of the recording; one whose
\* pattern and recording span more than a window
Pasada2 ==
    { [name |-> "2", has_pattern |-> TRUE,
       pattern |-> [name |-> "2_pattern_aligned_resampled",
                    pts |-> Track1Hz(0, <<0, 5, 10>>)],
       recs |-> <<[name |-> "a_resampled",
                   pts |-> <<Pt(1, 0, None, <<0, 0>>), Pt(5, 0, None, <<1, 0>>),
                             Pt(7, 0, None, <<1, 500000>>), Pt(9, 0, None, <<2, 0>>)>>]>>],
      [name |-> "3", has_pattern |-> FALSE, pattern |-> NoPattern,
       recs |-> <<[name |-> "a_resampled", pts |-> Track1Hz(0, <<1, 5, 9>>)]>>],
      [name |-> "4", has_pattern |-> TRUE,
       pattern |-> [name |-> "4_pattern_aligned_resampled", pts |-> Track1Hz(0, <<0>>)],
       recs |-> <<>>],
      [name |-> "5", has_pattern |-> TRUE,
       pattern |-> [name |-> "5_pattern_aligned_resampled",
                    pts |-> <<Pt(0, 0, None, <<0, 0>>), Pt(50, 0, None, <<5, 0>>)>>],
       recs |-> <<[name |-> "e_resampled", pts |-> Track1Hz(2, <<20, 30>>)]>>],
      [name |-> "6", has_pattern |-> TRUE,
       pattern |-> [name |-> "6_pattern_aligned_resampled",
                    pts |-> <<Pt(0, 0, None, <<0, 0>>),
                              Pt(10, 0, Q(5), <<WINDOW_SIZE + 100, 0>>)>>],
       recs |-> <<[name |-> "f_resampled",
                   pts |-> <<Pt(1, 0, None, <<0, 0>>),
                             Pt(9, 0, None, <<WINDOW_SIZE + 100, 0>>)>>]>>] }

\* sorted(os.listdir(PRE_DIR)), directories only
PreDirs == {<<g>> : g \in Pasada1} \cup {<<g, h>> : g \in Pasada1, h \in Pasada2}

\* the stats of an empty pass 1, and others
StatsVals ==
    { [mean |-> [dx |-> Q(0), dy |-> Q(0), dz |-> Q(0)],
       std |-> [dx |-> Q(1), dy |-> Q(1), dz |-> Q(1)]],
      [mean |-> [dx |-> Q(5), dy |-> Q(0), dz |-> Q(0)],
       std |-> [dx |-> Q(2), dy |-> Q(1), dz |-> Q(1)]] }

DatasetInit ==
    /\ PasIdle
    /\ IsoIdle
    /\ EvIdle
    /\ MedIdle
    /\ CvIdle
    /\ PjIdle
    /\ RsIdle
    /\ GmIdle
    /\ MnIdle
    /\ ds_pc = "group"
    /\ ds_stats \in StatsVals
    /\ ds_pasadas \in PreDirs
    /\ ds_gi = 0
    /\ ds_ri = 0
    /\ ds_k = 0
    /\ ds_cur = None
    /\ ds_files = <<>>
    /\ ds_manifest = <<>>

DsOthers == <<pas_vars, iso_vars, ev_vars, med_vars, cv_vars, pj_vars, rs_vars,
              gm_vars, mn_vars>>

\* lines 206-222: the next directory; one without a pattern of 2 timed
\* points is passed over
DsGroup ==
    /\ ds_pc = "group"
    /\ ds_gi < Len(ds_pasadas)
    /\ IF /\ ds_pasadas[ds_gi + 1].has_pattern
          /\ Len(read_gpx_points(ds_pasadas[ds_gi + 1].pattern.pts)) >= 2
         THEN /\ ds_pc' = "rec"
              /\ ds_gi' = ds_gi
         ELSE /\ ds_pc' = "group"
              /\ ds_gi' = ds_gi + 1
    /\ ds_ri' = 0
    /\ UNCHANGED <<ds_stats, ds_pasadas, ds_k, ds_cur, ds_files, ds_manifest>>
    /\ UNCHANGED DsOthers

\* lines 223-248: the next recording of the directory; `continue` passes it
\* over; after the last one the directory is done
DsRec ==
    /\ ds_pc = "rec"
    /\ IF ds_ri = Len(ds_pasadas[ds_gi + 1].recs)
         THEN /\ ds_pc' = "group"
              /\ ds_gi' = ds_gi + 1
              /\ UNCHANGED <<ds_ri, ds_cur>>
         ELSE \E cur \in {RecSeries(ds_stats,
                                    read_gpx_points(ds_pasadas[ds_gi + 1].pattern.pts),
                                    read_gpx_points(ds_pasadas[ds_gi + 1].recs[ds_ri + 1].pts))} :
                 IF cur = None
                   THEN /\ ds_ri' = ds_ri + 1
                        /\ UNCHANGED <<ds_pc, ds_gi, ds_cur>>
                   ELSE /\ ds_cur' = cur
                        /\ ds_pc' = "window"
                        /\ UNCHANGED <<ds_gi, ds_ri>>
    /\ ds_k' = 0
    /\ UNCHANGED <<ds_stats, ds_pasadas, ds_files, ds_manifest>>
    /\ UNCHANGED DsOthers

\* lines 248-269, one window: the three files are written and the row is
\* appended to manifest
DsWindow ==
    /\ ds_pc = "window"
    /\ \E f \in {WindowFiles(ds_cur, ds_pasadas[ds_gi + 1].pattern.name,
                             ds_pasadas[ds_gi + 1].recs[ds_ri + 1].name, ds_k + 1)} :
          /\ ds_files' = save_csv(save_csv(save_csv(ds_files, f.label_path, f.label),
                                           f.slice_path, f.slice),
                                  f.mask_path, f.mask)
          /\ ds_manifest' = Append(ds_manifest,
                [pasada |-> ds_pasadas[ds_gi + 1].name,
                 grabacion |-> ds_pasadas[ds_gi + 1].recs[ds_ri + 1].name,
                 pattern |-> ds_pasadas[ds_gi + 1].pattern.name,
                 window_id |-> f.tag,
                 t_start |-> f.t_start, t_end |-> f.t_end,
                 slice_path |-> f.slice_path, label_path |-> f.label_path,
                 mask_path |-> f.mask_path, n_points |-> f.n_points])
    /\ IF ds_k + 1 = Len(ds_cur.wins)
         THEN /\ ds_pc' = "rec"
              /\ ds_ri' = ds_ri + 1
              /\ ds_k' = 0
              /\ ds_cur' = None
         ELSE /\ ds_k' = ds_k + 1
              /\ UNCHANGED <<ds_pc, ds_ri, ds_cur>>
    /\ UNCHANGED <<ds_stats, ds_pasadas, ds_gi>>
    /\ UNCHANGED DsOthers

\* lines 271-276: manifest.csv is written
DsManifest ==
    /\ ds_pc = "group"
    /\ ds_gi = Len(ds_pasadas)
    /\ ds_files' = save_csv(ds_files, <<"manifest">>, ds_manifest)
    /\ ds_pc' = "done"
    /\ UNCHANGED <<ds_stats, ds_pasadas, ds_gi, ds_ri, ds_k, ds_cur, ds_manifest>>
    /\ UNCHANGED DsOthers

DatasetNext == DsGroup \/ DsRec \/ DsWindow \/ DsManifest

SpecDataset == DatasetInit /\ [][DatasetNext]_vars

\* ---- properties of pass2_generate_csvs --------------------------------
\* what lines 225-263 compute for the recording and window of a manifest row
OwnFiles(row) ==
    LET g == CHOOSE d \in Range(ds_pasadas) : d.name = row.pasada
        rec == CHOOSE f \in Range(g.recs) : f.name = row.grabacion
    IN  WindowFiles(RecSeries(ds_stats, read_gpx_points(g.pattern.pts),
                              read_gpx_points(rec.pts)),
                    g.pattern.name, rec.name, row.window_id[1])

\* C22: when pass2_generate_csvs has ended, the files at the label_path, the
\* slice_path and the mask_path of every manifest row hold what was computed
\* for the recording and the window of that row.
C22_ManifestFilesHoldOwnRows ==
    ds_pc = "done" =>
        \A r \in 1..Len(ds_manifest) :
            /\ ds_files[ds_manifest[r].label_path] = OwnFiles(ds_manifest[r]).label
            /\ ds_files[ds_manifest[r].slice_path] = OwnFiles(ds_manifest[r]).slice
            /\ ds_files[ds_manifest[r].mask_path] = OwnFiles(ds_manifest[r]).mask
====
